---- MODULE Spec2Model ----
(***************************************************************************)
(* Model of the resilient batch-synchronisation pipeline of                *)
(* moe-bot-trendspider-data:                                               *)
(*   - retry_with_backoff            (populate_ticker_data.py)             *)
(*   - populate_ticker_data.main     (batch stage + worker pool)           *)
(*   - RobustTickerMonitor           (monitor_ticker_changes_robust.py)    *)
(*   - run_once / monitor loop       (monitor_ticker_changes.py) together  *)
(*     with the aggregate populate scripts it launches.                    *)
(* Each component has its own specification over its own variables; the    *)
(* variables of the other components stay at their idle values.            *)
(***************************************************************************)
EXTENDS Integers, Sequences, FiniteSets, TLC

VARIABLES
    \* ---- retry_with_backoff, applied to drawn inputs
    bo_func, bo_max_retries, bo_base_delay, bo_max_delay, bo_result, bo_pc,
    \* ---- populate_ticker_data.main
    tickers, p_pc, p_i,
    batch_prints_cache, batch_levels_cache, batch_boxes_cache,
    exhausted, group_calls, faults, last_fetch, direct_fetches,
    queue, running, futures, records, fallback_failed,
    successful, failed, completed, exit_code,
    \* ---- RobustTickerMonitor (monitor_ticker_changes_robust.py)
    progress_file, processed_tickers, failed_tickers, all_tickers,
    remaining_tickers, r_i, r_pc, r_clear, successful_batches, last_batch,
    published, r_exit, runs,
    \* ---- monitor_ticker_changes.py and the aggregate populate scripts
    ticker_list_file, ticker_cache, levels_file, boxes_file, last_hash,
    cycle, launches, cycles, script_faults,
    \* ---- check_memory_usage, applied to drawn samples
    mg_sample, mg_result, mg_pc,
    \* ---- save_progress then load_progress, applied to drawn sets
    ps_processed, ps_failed, ps_data, ps_instance, ps_loaded, ps_pc,
    \* ---- the result lists of the prints and levels fetches, on drawn responses
    sh_rows, sh_batch, sh_result, sh_path, sh_pc,
    \* ---- the process working directory under the fallback fetches of the pool
    cw_dir, cw_pc, cw_saved, cw_left

boVars  == <<bo_func, bo_max_retries, bo_base_delay, bo_max_delay, bo_result,
             bo_pc>>
popVars == <<tickers, p_pc, p_i, batch_prints_cache, batch_levels_cache,
             batch_boxes_cache, exhausted, group_calls, faults, last_fetch,
             direct_fetches, queue, running, futures, records, fallback_failed, successful,
             failed, completed, exit_code>>
robVars == <<progress_file, processed_tickers, failed_tickers, all_tickers,
             remaining_tickers, r_i, r_pc, r_clear, successful_batches,
             last_batch, published, r_exit, runs>>
monVars == <<ticker_list_file, ticker_cache, levels_file, boxes_file,
             last_hash, cycle, launches, cycles, script_faults>>
mgVars  == <<mg_sample, mg_result, mg_pc>>
psVars  == <<ps_processed, ps_failed, ps_data, ps_instance, ps_loaded, ps_pc>>
shVars == <<sh_rows, sh_batch, sh_result, sh_path, sh_pc>>
cwVars == <<cw_dir, cw_pc, cw_saved, cw_left>>
vars    == <<boVars, popVars, robVars, monVars, mgVars, psVars, shVars, cwVars>>

nonBoVars  == <<popVars, robVars, monVars, mgVars, psVars, shVars, cwVars>>
nonPopVars == <<boVars, robVars, monVars, mgVars, psVars, shVars, cwVars>>
nonRobVars == <<boVars, popVars, monVars, mgVars, psVars, shVars, cwVars>>
nonMonVars == <<boVars, popVars, robVars, mgVars, psVars, shVars, cwVars>>
nonMgVars  == <<boVars, popVars, robVars, monVars, psVars, shVars, cwVars>>
nonPsVars  == <<boVars, popVars, robVars, monVars, mgVars, shVars, cwVars>>
nonShVars == <<boVars, popVars, robVars, monVars, mgVars, psVars, cwVars>>
nonCwVars == <<boVars, popVars, robVars, monVars, mgVars, psVars, shVars>>

----------------------------------------------------------------------------
(* Bounds of the model *)

\* largest max_retries drawn for retry_with_backoff in SpecBackoff
MaxRetriesBound == 3
\* group size of the batch stage (batch_size = 50 in the source, scaled down
\* so that a three-ticker universe is split into more than one group)
GroupSize == 2
\* number of things that may go wrong in one run of main(): group fetches
\* that do not answer with data for every ticker of the group, and records
\* that cannot be written
MaxFaultyFetches == 2
\* batch size of the robust monitor (BATCH_SIZE = 50 in the source, scaled
\* down so that a run has more than one batch)
MonitorBatchSize == 2
\* number of processes (runs of main) started one after the other
MaxRuns == 2
\* number of invocations of run_once and of iterations of the monitoring loop
MaxCycles == 2
\* number of iterations of the monitoring loop of one continuous monitor
MaxPolls == 3
\* number of script runs and publications, over all cycles, that may go wrong
MaxScriptFaults == 2
\* the memory samples of SpecGuard lie within this many MB of the threshold
\* and of the floor
MemSpread == 4

\* the ticker universe the models draw from
Tickers == {"A", "B", "C"}
TickerList == <<"A", "B", "C">>

----------------------------------------------------------------------------
(* Helpers *)

Min(a, b) == IF a < b THEN a ELSE b

RECURSIVE Pow2(_)
Pow2(n) == IF n = 0 THEN 1 ELSE 2 * Pow2(n - 1)

Range(s) == {s[i] : i \in 1..Len(s)}

\* tickers[i:i + size] of Python, with a 0-based start i
Slice(s, i, size) == SubSeq(s, i + 1, Min(i + size, Len(s)))

----------------------------------------------------------------------------
(* retry_with_backoff                                                      *)
(* func is the sequence of outcomes of its successive invocations: func[n] *)
(* is what the n-th call of func() does, [kind |-> "return" | "raise",     *)
(* val |-> value or exception, with |-> payload].  rnd[n] is the value     *)
(* random.uniform draws after the n-th failure, in percent.  Delays are    *)
(* in milliseconds.                                                        *)

Return(v, w) == [kind |-> "return", val |-> v, with |-> w]
Raise(e)     == [kind |-> "raise", val |-> e, with |-> {}]
IsRaise(o)   == o.kind = "raise"

max_delay_default == 60000

\* a variant without the cap max_delay
backoff_delay_uncapped(base_delay, max_delay, attempt) ==
    base_delay * Pow2(attempt)

\* the delay computed after the failed attempt with 0-based index attempt
backoff_delay(base_delay, max_delay, attempt) ==
    Min(base_delay * Pow2(attempt), max_delay)

\* one iteration of `for attempt in range(max_retries + 1)`
RECURSIVE retry_attempt(_, _, _, _, _, _, _)
retry_attempt(func, max_retries, base_delay, max_delay, rnd, attempt, sleeps) ==
    LET o == func[attempt + 1] IN
    IF ~IsRaise(o)
    THEN [raised |-> FALSE, outcome |-> o, calls |-> attempt + 1, sleeps |-> sleeps]
    ELSE IF attempt = max_retries
         THEN [raised |-> TRUE, outcome |-> o, calls |-> attempt + 1, sleeps |-> sleeps]
         ELSE LET delay  == backoff_delay(base_delay, max_delay, attempt)
                  jitter == (rnd[attempt + 1] * delay) \div 100
              IN retry_attempt(func, max_retries, base_delay, max_delay, rnd,
                               attempt + 1, Append(sleeps, delay + jitter))

\* a variant with range(max_retries) instead of range(max_retries + 1)
retry_with_backoff_short(func, max_retries, base_delay, max_delay, rnd) ==
    IF max_retries = 0
    THEN [raised |-> TRUE, outcome |-> func[1], calls |-> 0, sleeps |-> <<>>]
    ELSE retry_attempt(func, max_retries - 1, base_delay, max_delay, rnd, 0, <<>>)

retry_with_backoff(func, max_retries, base_delay, max_delay, rnd) ==
    retry_attempt(func, max_retries, base_delay, max_delay, rnd, 0, <<>>)

\* inputs drawn for SpecBackoff
BackoffOutcomes == {Return("v", {}), Raise("E1"), Raise("E2")}
JitterPercents  == {10, 20, 30}
BaseDelays      == {1000, 1500, 2000}
MaxDelays       == {3000, max_delay_default}
NoResult        == [raised |-> FALSE, outcome |-> Return("none", {}), calls |-> 0,
                    sleeps |-> <<>>]

BoInit ==
    /\ bo_max_retries \in 0..MaxRetriesBound
    /\ bo_func \in [1..(MaxRetriesBound + 1) -> BackoffOutcomes]
    /\ bo_base_delay \in BaseDelays
    /\ bo_max_delay \in MaxDelays
    /\ bo_result = NoResult
    /\ bo_pc = "call"

BoIdle ==
    /\ bo_max_retries = 0
    /\ bo_func = <<>>
    /\ bo_base_delay = 0
    /\ bo_max_delay = 0
    /\ bo_result = NoResult
    /\ bo_pc = "idle"

\* one call retry_with_backoff(func, max_retries, base_delay)
BoCall ==
    /\ bo_pc = "call"
    /\ \E rnd \in [1..(MaxRetriesBound + 1) -> JitterPercents] :
          bo_result' = retry_with_backoff(bo_func, bo_max_retries, bo_base_delay,
                                          bo_max_delay, rnd)
    /\ bo_pc' = "done"
    /\ UNCHANGED <<bo_func, bo_max_retries, bo_base_delay, bo_max_delay>>
    /\ UNCHANGED nonBoVars

----------------------------------------------------------------------------
(* populate_ticker_data.py: collaborators                                  *)
(* A cache entry is "absent" (no key), "none" (None, the sentinel),        *)
(* "empty" ([]) or "data" (a non-empty list).                              *)

Cats == {"prints", "levels", "boxes"}

\* what requests.post can do in one attempt; a response with data has rows
\* for every ticker of the batch, for none, or for all but the first
HttpExceptions == {"RequestException", "OtherException"}
HttpResponses(batch) ==
    {Return("200_data", S) : S \in {Range(batch), {}, Range(Tail(batch))}}
        \cup {Return("200_nodata", {}), Return("200_badjson", {}),
              Return("http_error", {})}

\* what subprocess.run can do in one attempt
ProcExceptions == {"TimeoutExpired", "OtherException"}
ProcResults(ticker) ==
    {Return("rc0_data", {ticker}), Return("rc0_nodata", {}),
     Return("rc0_badjson", {}), Return("rc_nonzero", {})}

\* the behaviours of a collaborator over n successive attempts: an answer at
\* once, an answer at the last attempt after n - 1 transient failures, or n
\* failures the last of which is any of excs (the executor never calls it
\* after an answer)
FuncsOf(n, resps, excs, transient) ==
    {[i \in 1..n |-> IF i <= k THEN Raise(transient) ELSE last] :
        k \in {0, n - 1}, last \in resps}
    \cup {[i \in 1..n |-> IF i < n THEN Raise(transient) ELSE Raise(e)] : e \in excs}

\* the sleeps of the executor are not part of the state of main(): one draw
FixedJitter == [i \in 1..4 |-> 10]

AllEmpty(batch) == [t \in Range(batch) |-> "empty"]

\* a variant that raises on a response without data
demux_response_empty_raises(tickers_batch, r) ==
    IF r.raised
    THEN IF r.outcome.val = "RequestException"
         THEN [raised |-> FALSE, result |-> AllEmpty(tickers_batch)]
         ELSE [raised |-> TRUE, result |-> AllEmpty(tickers_batch)]
    ELSE IF r.outcome.val = "200_data"
         THEN [raised |-> FALSE,
               result |-> [t \in Range(tickers_batch) |->
                              IF t \in r.outcome.with THEN "data" ELSE "empty"]]
         ELSE [raised |-> r.outcome.val = "200_nodata",
               result |-> AllEmpty(tickers_batch)]

\* the body shared by the three group fetches after retry_with_backoff:
\* r is the executor's result
demux_response(tickers_batch, r) ==
    IF r.raised
    THEN IF r.outcome.val = "RequestException"
         THEN [raised |-> FALSE, result |-> AllEmpty(tickers_batch)]
         ELSE [raised |-> TRUE, result |-> AllEmpty(tickers_batch)]
    ELSE IF r.outcome.val = "200_data"
         THEN [raised |-> FALSE,
               result |-> [t \in Range(tickers_batch) |->
                              IF t \in r.outcome.with THEN "data" ELSE "empty"]]
         ELSE [raised |-> FALSE, result |-> AllEmpty(tickers_batch)]

fetch_big_prints_batch(tickers_batch, func) ==
    demux_response(tickers_batch,
        retry_with_backoff(func, 3, 2000, max_delay_default, FixedJitter))

fetch_support_resistance_batch(tickers_batch, func) ==
    demux_response(tickers_batch,
        retry_with_backoff(func, 3, 2000, max_delay_default, FixedJitter))

fetch_price_boxes_batch(tickers_batch, func) ==
    demux_response(tickers_batch,
        retry_with_backoff(func, 3, 2000, max_delay_default, FixedJitter))

\* per-item fetches: [raised, value, failed]; failed = the executor gave up
fetch_big_prints_for_ticker(ticker, func) ==
    LET r == retry_with_backoff(func, 3, 2000, max_delay_default, FixedJitter) IN
    IF r.raised
    THEN IF r.outcome.val = "RequestException"
         THEN [raised |-> FALSE, value |-> "empty", failed |-> TRUE]
         ELSE [raised |-> TRUE, value |-> "empty", failed |-> TRUE]
    ELSE [raised |-> FALSE, failed |-> FALSE,
          value |-> IF r.outcome.val = "200_data" /\ ticker \in r.outcome.with
                    THEN "data" ELSE "empty"]

\* the body shared by the two script fetches after retry_with_backoff
script_fetch(ticker, r) ==
    IF r.raised
    THEN [raised |-> FALSE, value |-> "empty", failed |-> TRUE]
    ELSE [raised |-> FALSE, failed |-> FALSE,
          value |-> IF r.outcome.val = "rc0_data" THEN "data" ELSE "empty"]

fetch_support_resistance_for_ticker(ticker, func) ==
    script_fetch(ticker,
        retry_with_backoff(func, 2, 1000, max_delay_default, FixedJitter))

fetch_price_boxes_for_ticker(ticker, func) ==
    script_fetch(ticker,
        retry_with_backoff(func, 2, 1500, max_delay_default, FixedJitter))

----------------------------------------------------------------------------
(* populate_ticker_data.main: batch stage *)

max_workers == 2

EmptyCache == [t \in Tickers |-> "absent"]
NoRec      == [prints |-> "unset", levels |-> "unset", boxes |-> "unset", via |-> {}]

\* a variant that leaves out the last, shorter batch
NumBatchesFull(ts) == Len(ts) \div GroupSize

\* len(batches) for batches = [tickers[i:i + batch_size] for i in range(0, len, batch_size)]
NumBatches(ts) == (Len(ts) + GroupSize - 1) \div GroupSize
Batch(ts, i)   == Slice(ts, i * GroupSize, GroupSize)

\* cache.update(batch_results)
CacheUpdate(cache, result) ==
    [t \in Tickers |-> IF t \in DOMAIN result THEN result[t] ELSE cache[t]]

\* a variant that marks the first ticker of the batch only
CacheMarkNone_first(cache, batch) ==
    [t \in Tickers |-> IF t = Head(batch) THEN "none" ELSE cache[t]]

\* for ticker in batch: cache[ticker] = None
CacheMarkNone(cache, batch) ==
    [t \in Tickers |-> IF t \in Range(batch) THEN "none" ELSE cache[t]]

\* try: cache.update(fetch(batch)) except Exception: mark the batch None
CacheAfterFetch(cache, batch, res) ==
    IF res.raised THEN CacheMarkNone(cache, batch) ELSE CacheUpdate(cache, res.result)

\* the items of a batch whose group fetch ended with the executor giving up
Exhausted(cat, batch, func, max_retries) ==
    IF retry_with_backoff(func, max_retries, 2000, max_delay_default, FixedJitter).raised
    THEN {<<cat, t>> : t \in Range(batch)} ELSE {}

\* a group fetch deviates when it does not yield data for every ticker
Deviates(res) == res.raised \/ \E t \in DOMAIN res.result : res.result[t] # "data"
FaultsAfter(n, res) == IF Deviates(res) THEN n + 1 ELSE n

\* the latest group fetch of the batch stage: its category and batch,
\* whether its first request was answered by an empty response, and the
\* number of requests the executor made
NoFetch == [cat |-> "none", batch |-> <<>>, empty_answer |-> FALSE, calls |-> 0]
FetchOf(cat, batch, func, max_retries) ==
    [cat |-> cat, batch |-> batch, empty_answer |-> func[1].val = "200_nodata",
     calls |-> retry_with_backoff(func, max_retries, 2000, max_delay_default,
                                  FixedJitter).calls]

PopInit ==
    /\ tickers \in {SubSeq(TickerList, 1, n) : n \in 0..Len(TickerList)}
    /\ p_pc = "start"
    /\ p_i = 0
    /\ batch_prints_cache = EmptyCache
    /\ batch_levels_cache = EmptyCache
    /\ batch_boxes_cache = EmptyCache
    /\ exhausted = {}
    /\ group_calls = [c \in Cats |-> 0]
    /\ faults = 0
    /\ last_fetch = NoFetch
    /\ direct_fetches = {}
    /\ queue = <<>>
    /\ running = {}
    /\ futures = [t \in Tickers |-> "none"]
    /\ records = [t \in Tickers |-> NoRec]
    /\ fallback_failed = {}
    /\ successful = 0
    /\ failed = 0
    /\ completed = {}
    /\ exit_code = -1

PopIdle ==
    /\ tickers = <<>>
    /\ p_pc = "idle"
    /\ p_i = 0
    /\ batch_prints_cache = EmptyCache
    /\ batch_levels_cache = EmptyCache
    /\ batch_boxes_cache = EmptyCache
    /\ exhausted = {}
    /\ group_calls = [c \in Cats |-> 0]
    /\ faults = 0
    /\ last_fetch = NoFetch
    /\ direct_fetches = {}
    /\ queue = <<>>
    /\ running = {}
    /\ futures = [t \in Tickers |-> "none"]
    /\ records = [t \in Tickers |-> NoRec]
    /\ fallback_failed = {}
    /\ successful = 0
    /\ failed = 0
    /\ completed = {}
    /\ exit_code = -1

poolVars == <<queue, running, futures, records, fallback_failed, successful,
              failed, completed>>

\* a variant in which a loop of the batch stage ends after its first
\* iteration
loop_step_once(stage, i, n, following) == [pc |-> following, i |-> 0]

\* the position after iteration i (0-based) of a loop of n iterations of
\* the batch stage: the next iteration, or the stage that follows the loop
loop_step(stage, i, n, following) ==
    IF i + 1 < n THEN [pc |-> stage, i |-> i + 1] ELSE [pc |-> following, i |-> 0]

\* if not tickers: sys.exit(1)
PopNoTickers ==
    /\ p_pc = "start"
    /\ tickers = <<>>
    /\ p_pc' = "done"
    /\ exit_code' = 1
    /\ UNCHANGED <<tickers, p_i, batch_prints_cache, batch_levels_cache,
                   batch_boxes_cache, exhausted, group_calls, faults, poolVars>>
    /\ UNCHANGED last_fetch
    /\ UNCHANGED direct_fetches
    /\ UNCHANGED nonPopVars

PopBegin ==
    /\ p_pc = "start"
    /\ tickers # <<>>
    /\ p_pc' = "prints"
    /\ UNCHANGED <<tickers, p_i, batch_prints_cache, batch_levels_cache,
                   batch_boxes_cache, exhausted, group_calls, faults, poolVars, exit_code>>
    /\ UNCHANGED last_fetch
    /\ UNCHANGED direct_fetches
    /\ UNCHANGED nonPopVars

\* one iteration of `for i, batch in enumerate(batches, 1)` for big prints
FetchPrintsBatch ==
    /\ p_pc = "prints"
    /\ LET batch == Batch(tickers, p_i) IN
       \E func \in FuncsOf(4, HttpResponses(batch), HttpExceptions, "RequestException") :
          \E res \in {fetch_big_prints_batch(batch, func)} :
          /\ FaultsAfter(faults, res) <= MaxFaultyFetches
          /\ faults' = FaultsAfter(faults, res)
          /\ batch_prints_cache' = CacheAfterFetch(batch_prints_cache, batch, res)
          /\ exhausted' = exhausted \cup Exhausted("prints", batch, func, 3)
          /\ last_fetch' = FetchOf("prints", batch, func, 3)
    /\ group_calls' = [group_calls EXCEPT !["prints"] = @ + 1]
    /\ LET nxt == loop_step("prints", p_i, NumBatches(tickers), "levels") IN
       p_i' = nxt.i /\ p_pc' = nxt.pc
    /\ UNCHANGED <<tickers, batch_levels_cache, batch_boxes_cache, poolVars,
                   exit_code>>
    /\ UNCHANGED direct_fetches
    /\ UNCHANGED nonPopVars

\* one iteration of `for i, ticker in enumerate(tickers, 1)` for levels
FetchLevelsTicker ==
    /\ p_pc = "levels"
    /\ LET batch == <<tickers[p_i + 1]>> IN
       \E func \in FuncsOf(4, HttpResponses(batch), HttpExceptions, "RequestException") :
          \E res \in {fetch_support_resistance_batch(batch, func)} :
          /\ FaultsAfter(faults, res) <= MaxFaultyFetches
          /\ faults' = FaultsAfter(faults, res)
          /\ batch_levels_cache' = CacheAfterFetch(batch_levels_cache, batch, res)
          /\ exhausted' = exhausted \cup Exhausted("levels", batch, func, 3)
          /\ last_fetch' = FetchOf("levels", batch, func, 3)
    /\ group_calls' = [group_calls EXCEPT !["levels"] = @ + 1]
    /\ LET nxt == loop_step("levels", p_i, Len(tickers), "boxes") IN
       p_i' = nxt.i /\ p_pc' = nxt.pc
    /\ UNCHANGED <<tickers, batch_prints_cache, batch_boxes_cache, poolVars,
                   exit_code>>
    /\ UNCHANGED direct_fetches
    /\ UNCHANGED nonPopVars

\* one iteration of the boxes loop; after the last one every ticker is
\* submitted to the executor (future_to_ticker)
FetchBoxesBatch ==
    /\ p_pc = "boxes"
    /\ LET batch == Batch(tickers, p_i) IN
       \E func \in FuncsOf(4, HttpResponses(batch), HttpExceptions, "RequestException") :
          \E res \in {fetch_price_boxes_batch(batch, func)} :
          /\ FaultsAfter(faults, res) <= MaxFaultyFetches
          /\ faults' = FaultsAfter(faults, res)
          /\ batch_boxes_cache' = CacheAfterFetch(batch_boxes_cache, batch, res)
          /\ exhausted' = exhausted \cup Exhausted("boxes", batch, func, 3)
          /\ last_fetch' = FetchOf("boxes", batch, func, 3)
    /\ group_calls' = [group_calls EXCEPT !["boxes"] = @ + 1]
    /\ LET nxt == loop_step("boxes", p_i, NumBatches(tickers), "pool") IN
       /\ p_i' = nxt.i
       /\ p_pc' = nxt.pc
       /\ IF nxt.pc = "pool"
          THEN /\ queue' = tickers
               /\ futures' = [t \in Tickers |->
                                 IF t \in Range(tickers) THEN "pending" ELSE "none"]
          ELSE UNCHANGED <<queue, futures>>
    /\ UNCHANGED <<tickers, batch_prints_cache, batch_levels_cache, running,
                   records, fallback_failed, successful, failed, completed,
                   exit_code>>
    /\ UNCHANGED direct_fetches
    /\ UNCHANGED nonPopVars

----------------------------------------------------------------------------
(* populate_ticker_data.main: worker pool (ThreadPoolExecutor) and          *)
(* process_ticker                                                           *)

\* a variant that tests the entry for truth, so that [] counts as missing
UseCache_truthy(cache, ticker) ==
    /\ \E u \in Tickers : cache[u] # "absent"
    /\ cache[ticker] \notin {"absent", "none", "empty"}

\* `cache and ticker in cache and cache[ticker] is not None`
UseCache(cache, ticker) ==
    /\ \E u \in Tickers : cache[u] # "absent"
    /\ cache[ticker] # "absent"
    /\ cache[ticker] # "none"

\* one category of process_ticker: the cached result, else the direct fetch r
Gather(cache, ticker, r) ==
    IF UseCache(cache, ticker)
    THEN [value |-> cache[ticker], direct |-> FALSE, failed |-> FALSE, raised |-> FALSE]
    ELSE [value |-> r.value, direct |-> TRUE, failed |-> r.failed, raised |-> r.raised]

\* process_ticker(ticker, ...): fp, fl, fb are the behaviours of the three
\* per-item collaborators, written tells whether json.dump succeeds.
\* ok is the return value, rec the record written (when wrote), ff the
\* categories whose direct fetch failed.
process_ticker(ticker, prints_cache, levels_cache, boxes_cache, fp, fl, fb, written) ==
    LET p == Gather(prints_cache, ticker, fetch_big_prints_for_ticker(ticker, fp))
        l == Gather(levels_cache, ticker, fetch_support_resistance_for_ticker(ticker, fl))
        b == Gather(boxes_cache, ticker, fetch_price_boxes_for_ticker(ticker, fb))
    IN IF p.raised
       THEN [ok |-> FALSE, wrote |-> FALSE, rec |-> NoRec, ff |-> {"prints"},
             direct |-> {"prints"}, gathered |-> FALSE]
       ELSE [ok |-> written, wrote |-> written, gathered |-> TRUE,
             direct |-> {c \in Cats : (c = "prints" /\ p.direct)
                                          \/ (c = "levels" /\ l.direct)
                                          \/ (c = "boxes" /\ b.direct)},
             rec |-> [prints |-> p.value, levels |-> l.value, boxes |-> b.value,
                      via |-> {c \in Cats : \/ c = "prints" /\ p.direct
                                            \/ c = "levels" /\ l.direct
                                            \/ c = "boxes" /\ b.direct}],
             ff |-> {c \in Cats : \/ c = "prints" /\ p.failed
                                  \/ c = "levels" /\ l.failed
                                  \/ c = "boxes" /\ b.failed}]

\* the behaviours to draw for a per-item collaborator: one (unused) when the
\* cache entry is used, else an answer or n failures (what process_ticker
\* does with an answer does not depend on the failures before it)
DirectFuncs(cache, ticker, n, resps, excs, transient) ==
    IF UseCache(cache, ticker)
    THEN {[i \in 1..n |-> Raise(transient)]}
    ELSE {[i \in 1..n |-> last] : last \in resps}
         \cup {[i \in 1..n |-> IF i < n THEN Raise(transient) ELSE Raise(e)] :
                  e \in excs}

\* a worker thread of the pool takes the next submitted task
WorkerStart ==
    /\ p_pc = "pool"
    /\ queue # <<>>
    /\ Cardinality(running) < max_workers
    /\ running' = running \cup {Head(queue)}
    /\ queue' = Tail(queue)
    /\ UNCHANGED <<tickers, p_pc, p_i, batch_prints_cache, batch_levels_cache,
                   batch_boxes_cache, exhausted, group_calls, faults, futures, records,
                   fallback_failed, successful, failed, completed, exit_code>>
    /\ last_fetch' = NoFetch
    /\ UNCHANGED direct_fetches
    /\ UNCHANGED nonPopVars

\* how a task that has gathered its three categories can end: the record is
\* written, json.dump fails (caught, False), or an exception leaves
\* process_ticker outside its two try blocks (e.g. MemoryError while
\* ticker_data is built); the last two count as things that go wrong
TaskEnds(n) ==
    IF n < MaxFaultyFetches THEN {"written", "not_written", "raised"} ELSE {"written"}

\* the state of the future of a finished task
FutureOf(res, end) ==
    IF res.ok THEN "True"
    ELSE IF res.gathered /\ end = "raised" THEN "Raised" ELSE "False"

\* a worker thread runs process_ticker(t) to its end: the future is done
WorkerFinish(t) ==
    /\ p_pc = "pool"
    /\ t \in running
    /\ \E fp \in DirectFuncs(batch_prints_cache, t, 4, HttpResponses(<<t>>),
                             HttpExceptions, "RequestException"),
          fl \in DirectFuncs(batch_levels_cache, t, 3, ProcResults(t),
                             ProcExceptions, "TimeoutExpired"),
          fb \in DirectFuncs(batch_boxes_cache, t, 3, ProcResults(t),
                             ProcExceptions, "TimeoutExpired"),
          end \in TaskEnds(faults) :
          \E res \in {process_ticker(t, batch_prints_cache, batch_levels_cache,
                                      batch_boxes_cache, fp, fl, fb, end = "written")} :
          /\ records' = IF res.wrote THEN [records EXCEPT ![t] = res.rec] ELSE records
          /\ fallback_failed' = fallback_failed \cup {<<c, t>> : c \in res.ff}
          /\ direct_fetches' = direct_fetches \cup {<<c, t>> : c \in res.direct}
          /\ faults' = IF end = "written" THEN faults ELSE faults + 1
          /\ futures' = [futures EXCEPT ![t] = FutureOf(res, end)]
    /\ running' = running \ {t}
    /\ UNCHANGED <<tickers, p_pc, p_i, batch_prints_cache, batch_levels_cache,
                   batch_boxes_cache, exhausted, group_calls, queue, successful,
                   failed, completed, exit_code>>
    /\ UNCHANGED last_fetch
    /\ UNCHANGED nonPopVars

\* a variant that counts only a False result as failed
CountFuture_false_only(result, counts) ==
    IF result = "True"
    THEN [successful |-> counts.successful + 1, failed |-> counts.failed]
    ELSE IF result = "False"
    THEN [successful |-> counts.successful, failed |-> counts.failed + 1]
    ELSE counts

\* the counters after one future of as_completed
CountFuture(result, counts) ==
    IF result = "True"
    THEN [successful |-> counts.successful + 1, failed |-> counts.failed]
    ELSE [successful |-> counts.successful, failed |-> counts.failed + 1]

\* one iteration of `for future in as_completed(future_to_ticker)`
Collect(t) ==
    /\ p_pc = "pool"
    /\ futures[t] \in {"True", "False", "Raised"}
    /\ t \notin completed
    /\ LET c == CountFuture(futures[t],
                            [successful |-> successful, failed |-> failed]) IN
       /\ successful' = c.successful
       /\ failed' = c.failed
    /\ completed' = completed \cup {t}
    /\ UNCHANGED <<tickers, p_pc, p_i, batch_prints_cache, batch_levels_cache,
                   batch_boxes_cache, exhausted, group_calls, faults, queue, running,
                   futures, records, fallback_failed, exit_code>>
    /\ UNCHANGED last_fetch
    /\ UNCHANGED direct_fetches
    /\ UNCHANGED nonPopVars

\* as_completed is exhausted: the summary is printed and main returns
PopFinish ==
    /\ p_pc = "pool"
    /\ completed = Range(tickers)
    /\ p_pc' = "done"
    /\ exit_code' = 0
    /\ UNCHANGED <<tickers, p_i, batch_prints_cache, batch_levels_cache,
                   batch_boxes_cache, exhausted, group_calls, faults, poolVars>>
    /\ UNCHANGED last_fetch
    /\ UNCHANGED direct_fetches
    /\ UNCHANGED nonPopVars

----------------------------------------------------------------------------
(* monitor_ticker_changes_robust.py: RobustTickerMonitor                    *)
(* The progress file is absent, holds a saved record, is partial (truncated  *)
(* by open(.., 'w') and not yet completely written) or corrupt (damaged from *)
(* outside).                                                                 *)

MEMORY_THRESHOLD_MB == 1000
MIN_AVAILABLE_MB    == 200

\* a variant whose except branch returns False
check_memory_usage_fail_closed(memory_mb, available_mb, sampling_error) ==
    IF sampling_error THEN FALSE
    ELSE memory_mb < MEMORY_THRESHOLD_MB /\ available_mb > MIN_AVAILABLE_MB

\* check_memory_usage: the sampled resident and available memory in MB, or
\* an error of the sampling
check_memory_usage(memory_mb, available_mb, sampling_error) ==
    IF sampling_error THEN TRUE
    ELSE memory_mb < MEMORY_THRESHOLD_MB /\ available_mb > MIN_AVAILABLE_MB

MemSample(m, a, e) == [memory_mb |-> m, available_mb |-> a, error |-> e]
MemSamples == {MemSample(500, 4000, FALSE), MemSample(1000, 4000, FALSE),
               MemSample(500, 200, FALSE), MemSample(1500, 100, TRUE)}
CheckSample(s) == check_memory_usage(s.memory_mb, s.available_mb, s.error)

\* the universes load_ticker_list can return ([] when the config file is
\* missing or malformed)
Universes == {<<>>, <<"A", "B", "C">>, <<"A", "B">>, <<"B", "C">>}

ProgressOf(p, f) == [processed |-> p, failed |-> f]
EmptyProgress == ProgressOf({}, {})

FileOf(p, f) == [state |-> "saved", processed |-> p, failed |-> f]
AbsentFile   == [state |-> "absent", processed |-> {}, failed |-> {}]
CorruptFile  == [state |-> "corrupt", processed |-> {}, failed |-> {}]
PartialFile  == [state |-> "partial", processed |-> {}, failed |-> {}]

\* a file that cannot be loaded to its end: 'processed' reads as the set
\* readable and the error comes after it (at 'failed')
DamagedFile(readable) == [state |-> "corrupt", processed |-> readable, failed |-> {}]

\* a variant whose except branch does not reset the two sets
load_progress_no_reset(file, p, f) ==
    IF file.state = "absent" THEN ProgressOf(p, f)
    ELSE IF file.state \in {"corrupt", "partial"} THEN ProgressOf(file.processed, f)
    ELSE ProgressOf(file.processed, file.failed)

\* load_progress: the in-memory sets after it, starting from (p, f)
load_progress(file, p, f) ==
    IF file.state = "absent" THEN ProgressOf(p, f)
    ELSE IF file.state \in {"corrupt", "partial"} THEN EmptyProgress
    ELSE ProgressOf(file.processed, file.failed)

\* a variant that removes the file and keeps the two sets
clear_progress_file_only(file, p, f) ==
    [file |-> AbsentFile, processed |-> p, failed |-> f]

\* clear_progress: the file and the in-memory sets after it
clear_progress(file, p, f) ==
    [file |-> AbsentFile, processed |-> {}, failed |-> {}]

\* save_progress: the content of the progress file after it
save_progress(p, f) == FileOf(p, f)

\* the populate subprocess of a batch: how subprocess.run ends
BatchOutcomes == {"rc0", "rc_nonzero", "timeout", "exception"}

\* a variant that records a batch only when its subprocess exits 0
process_ticker_batch_forgets_failures(ticker_batch, p, f, c1, c2, outcome) ==
    IF ~c1 /\ ~c2
    THEN [ret |-> FALSE, launched |-> FALSE, processed |-> p, failed |-> f,
          cleanups |-> 1]
    ELSE [ret |-> outcome = "rc0", launched |-> TRUE,
          processed |-> IF outcome = "rc0" THEN p \cup Range(ticker_batch) ELSE p,
          failed |-> f, cleanups |-> IF c1 THEN 1 ELSE 2]

\* process_ticker_batch(ticker_batch): c1, c2 are the results of the two
\* memory checks, outcome how the subprocess ends
process_ticker_batch(ticker_batch, p, f, c1, c2, outcome) ==
    IF ~c1 /\ ~c2
    THEN [ret |-> FALSE, launched |-> FALSE, processed |-> p, failed |-> f,
          cleanups |-> 1]
    ELSE LET n == IF c1 THEN 1 ELSE 2 IN
         IF outcome = "rc0"
         THEN [ret |-> TRUE, launched |-> TRUE,
               processed |-> p \cup Range(ticker_batch), failed |-> f,
               cleanups |-> n]
         ELSE [ret |-> FALSE, launched |-> TRUE, processed |-> p,
               failed |-> f \cup Range(ticker_batch), cleanups |-> n]

\* a variant that submits the whole universe again
remaining_of_all(universe, processed, clear) ==
    universe

\* remaining_tickers of run_full_refresh
remaining_of(universe, processed, clear) ==
    IF clear THEN universe
    ELSE SelectSeq(universe, LAMBDA t : t \notin processed)

NoBatch == [batch |-> <<>>, launched |-> FALSE, ret |-> FALSE, c1 |-> TRUE,
            c2 |-> TRUE, cleanups |-> 0, outcome |-> "none"]
NoPublish == [copy |-> "no", push |-> "no"]

RobInit ==
    /\ progress_file = AbsentFile
    /\ processed_tickers = {}
    /\ failed_tickers = {}
    /\ all_tickers = <<>>
    /\ remaining_tickers = <<>>
    /\ r_i = 0
    /\ r_pc = "idle"
    /\ r_clear = FALSE
    /\ successful_batches = 0
    /\ last_batch = NoBatch
    /\ published = NoPublish
    /\ r_exit = -1
    /\ runs = 0

RobIdle == RobInit

\* main(): a new process; RobustTickerMonitor() loads the progress, then
\* --full-refresh or --resume starts run_full_refresh, else exit 1
RobMain ==
    /\ r_pc = "idle"
    /\ runs < MaxRuns
    /\ runs' = runs + 1
    /\ \E mode \in {"full_refresh", "resume", "none"}, clear \in BOOLEAN :
          LET st == load_progress(progress_file, {}, {}) IN
          /\ processed_tickers' = st.processed
          /\ failed_tickers' = st.failed
          /\ r_clear' = clear
          /\ IF mode = "none"
             THEN r_pc' = "idle" /\ r_exit' = 1
             ELSE r_pc' = "refresh" /\ r_exit' = -1
    /\ all_tickers' = <<>>
    /\ remaining_tickers' = <<>>
    /\ r_i' = 0
    /\ successful_batches' = 0
    /\ last_batch' = NoBatch
    /\ published' = NoPublish
    /\ UNCHANGED progress_file
    /\ UNCHANGED nonRobVars

\* run_full_refresh up to the batch loop: clear_progress, load_ticker_list,
\* the filter of the processed tickers and the two early returns
RunFullRefreshBegin ==
    /\ r_pc = "refresh"
    /\ \E universe \in Universes :
          LET cleared == clear_progress(progress_file, processed_tickers,
                                        failed_tickers)
              p == IF r_clear THEN cleared.processed ELSE processed_tickers
              f == IF r_clear THEN cleared.failed ELSE failed_tickers
              remaining == remaining_of(universe, p, r_clear)
          IN
          /\ progress_file' = IF r_clear THEN cleared.file ELSE progress_file
          /\ processed_tickers' = p
          /\ failed_tickers' = f
          /\ all_tickers' = universe
          /\ IF universe = <<>>
             THEN /\ r_pc' = "idle"
                  /\ r_exit' = 1
                  /\ remaining_tickers' = <<>>
             ELSE /\ remaining_tickers' = remaining
                  /\ IF remaining = <<>>
                     THEN r_pc' = "idle" /\ r_exit' = 0
                     ELSE r_pc' = "batch" /\ r_exit' = -1
    /\ UNCHANGED <<r_i, r_clear, successful_batches, last_batch, published, runs>>
    /\ UNCHANGED nonRobVars

\* the loop body up to the return of process_ticker_batch(batch)
ProcessTickerBatch ==
    /\ r_pc = "batch"
    /\ LET batch == Slice(remaining_tickers, r_i, MonitorBatchSize) IN
       \E s1 \in MemSamples, s2 \in MemSamples, outcome \in BatchOutcomes :
          LET res == process_ticker_batch(batch, processed_tickers, failed_tickers,
                                          CheckSample(s1), CheckSample(s2), outcome)
          IN
          /\ processed_tickers' = res.processed
          /\ failed_tickers' = res.failed
          /\ successful_batches' = IF res.ret THEN successful_batches + 1
                                   ELSE successful_batches
          /\ last_batch' = [batch |-> batch, launched |-> res.launched,
                            ret |-> res.ret, c1 |-> CheckSample(s1),
                            c2 |-> IF CheckSample(s1) THEN TRUE ELSE CheckSample(s2),
                            cleanups |-> res.cleanups,
                            outcome |-> IF res.launched THEN outcome ELSE "none"]
    /\ r_pc' = "save"
    /\ UNCHANGED <<progress_file, all_tickers, remaining_tickers, r_i, r_clear,
                   published, r_exit, runs>>
    /\ UNCHANGED nonRobVars

\* self.save_progress() after the batch
SaveProgress ==
    /\ r_pc = "save"
    /\ progress_file' = save_progress(processed_tickers, failed_tickers)
    /\ r_pc' = "check"
    /\ UNCHANGED <<processed_tickers, failed_tickers, all_tickers,
                   remaining_tickers, r_i, r_clear, successful_batches,
                   last_batch, published, r_exit, runs>>
    /\ UNCHANGED nonRobVars

\* the memory check after the batch (break when it fails), then the next
\* iteration of range(0, len(remaining_tickers), batch_size)
NextBatch ==
    /\ r_pc = "check"
    /\ \E s \in MemSamples :
          IF CheckSample(s) /\ r_i + MonitorBatchSize < Len(remaining_tickers)
          THEN r_pc' = "batch" /\ r_i' = r_i + MonitorBatchSize
          ELSE r_pc' = "summary" /\ r_i' = r_i
    /\ UNCHANGED <<progress_file, processed_tickers, failed_tickers, all_tickers,
                   remaining_tickers, r_clear, successful_batches, last_batch,
                   published, r_exit, runs>>
    /\ UNCHANGED nonRobVars

\* what publishing does: copy_files_to_repo and, when it returns True,
\* commit_and_push (both catch every exception and return False)
publish_of(copy_ok, push_ok) ==
    [copy |-> IF copy_ok THEN "ok" ELSE "failed",
     push |-> IF copy_ok THEN (IF push_ok THEN "ok" ELSE "failed") ELSE "no"]

\* a variant that clears the progress and returns True only when the
\* publication went through
refresh_summary_needs_publish(file, p, f, all, copy_ok, push_ok) ==
    LET pub == IF Cardinality(p) > 0 THEN publish_of(copy_ok, push_ok) ELSE NoPublish
        cleared == clear_progress(file, p, f)
    IN IF Cardinality(p) = Len(all) /\ pub.copy # "failed" /\ pub.push # "failed"
       THEN [published |-> pub, file |-> cleared.file, processed |-> cleared.processed,
             failed |-> cleared.failed, ret |-> TRUE]
       ELSE [published |-> pub, file |-> file, processed |-> p, failed |-> f,
             ret |-> FALSE]

\* the end of run_full_refresh: publish when something is processed, clear
\* the progress and return True when all is processed, else return False
refresh_summary(file, p, f, all, copy_ok, push_ok) ==
    LET pub == IF Cardinality(p) > 0 THEN publish_of(copy_ok, push_ok) ELSE NoPublish
        cleared == clear_progress(file, p, f)
    IN IF Cardinality(p) = Len(all)
       THEN [published |-> pub, file |-> cleared.file, processed |-> cleared.processed,
             failed |-> cleared.failed, ret |-> TRUE]
       ELSE [published |-> pub, file |-> file, processed |-> p, failed |-> f,
             ret |-> FALSE]

\* the end of run_full_refresh; main exits 0 on True and 1 on False
RunFullRefreshEnd ==
    /\ r_pc = "summary"
    /\ \E copy_ok \in BOOLEAN, push_ok \in BOOLEAN :
          \E res \in {refresh_summary(progress_file, processed_tickers,
                                       failed_tickers, all_tickers, copy_ok, push_ok)} :
          /\ published' = res.published
          /\ progress_file' = res.file
          /\ processed_tickers' = res.processed
          /\ failed_tickers' = res.failed
          /\ r_exit' = IF res.ret THEN 0 ELSE 1
    /\ r_pc' = "idle"
    /\ UNCHANGED <<all_tickers, remaining_tickers, r_i, r_clear,
                   successful_batches, last_batch, runs>>
    /\ UNCHANGED nonRobVars

\* the process is interrupted (a signal) between two steps of the run
Interrupt ==
    /\ r_pc \in {"refresh", "batch", "save", "check", "summary"}
    /\ r_pc' = "idle"
    /\ r_exit' = 130
    /\ UNCHANGED <<progress_file, processed_tickers, failed_tickers, all_tickers,
                   remaining_tickers, r_i, r_clear, successful_batches,
                   last_batch, published, runs>>
    /\ UNCHANGED nonRobVars

\* the process is interrupted inside save_progress, after open(.., 'w') has
\* truncated the file and before json.dump has written it all
InterruptSave ==
    /\ r_pc = "save"
    /\ progress_file' = PartialFile
    /\ r_pc' = "idle"
    /\ r_exit' = 130
    /\ UNCHANGED <<processed_tickers, failed_tickers, all_tickers,
                   remaining_tickers, r_i, r_clear, successful_batches,
                   last_batch, published, runs>>
    /\ UNCHANGED nonRobVars

\* the progress file is damaged between two processes
CorruptProgress ==
    /\ r_pc = "idle"
    /\ progress_file.state = "saved"
    /\ runs < MaxRuns
    /\ progress_file' \in {CorruptFile, DamagedFile(progress_file.processed)}
    /\ UNCHANGED <<processed_tickers, failed_tickers, all_tickers,
                   remaining_tickers, r_i, r_pc, r_clear, successful_batches,
                   last_batch, published, r_exit, runs>>
    /\ UNCHANGED nonRobVars

----------------------------------------------------------------------------
(* monitor_ticker_changes.py and the scripts of POPULATE_SCRIPTS            *)
(* (populate_support_resistance.py, populate_price_boxes.py).               *)
(* An aggregate file is a sequence of entries [symbol, gen]: gen is "new"   *)
(* for an entry written by the current cycle and "old" otherwise.           *)

Symbols == Tickers \cup {"D"}

TickerFileOf(ts) == [state |-> "ok", tickers |-> ts]
MissingTickerFile   == [state |-> "missing", tickers |-> <<>>]
MalformedTickerFile == [state |-> "malformed", tickers |-> <<>>]
TickerFiles == {MissingTickerFile, MalformedTickerFile,
                TickerFileOf(<<"A", "B", "C">>), TickerFileOf(<<"B", "C", "D">>),
                TickerFileOf(<<"B", "C">>)}

AbsentCache == [state |-> "absent", tickers |-> <<>>]
AbsentData  == [exists |-> FALSE, entries |-> <<>>]
NoHash      == [known |-> FALSE, file |-> MissingTickerFile]

\* the orders in which list(set) can enumerate a set
Orders(S) == {q \in [1..Cardinality(S) -> S] : \A i, j \in 1..Cardinality(S) :
                                                   i # j => q[i] # q[j]}

\* load_ticker_list (of the monitor and of the scripts): [] on any error
load_ticker_list(file) == IF file.state = "ok" THEN file.tickers ELSE <<>>

\* load_ticker_cache: [] when there is no cache
load_ticker_cache(cache) == IF cache.state = "saved" THEN cache.tickers ELSE <<>>

\* a variant that writes the list without its last ticker
save_ticker_cache_short(ts) ==
    [state |-> "saved", tickers |-> SubSeq(ts, 1, Len(ts) - 1)]

save_ticker_cache(ts) ==
    [state |-> "saved", tickers |-> ts]

\* a variant that reports every current ticker as new
detect_ticker_changes_all_new(current_tickers, cached_tickers) ==
    [new_tickers     |-> Range(current_tickers),
     removed_tickers |-> Range(cached_tickers) \ Range(current_tickers)]

detect_ticker_changes(current_tickers, cached_tickers) ==
    [new_tickers     |-> Range(current_tickers) \ Range(cached_tickers),
     removed_tickers |-> Range(cached_tickers) \ Range(current_tickers)]

\* load_existing_data of a script
load_existing_data(file) == IF file.exists THEN file.entries ELSE <<>>

\* a variant that removes nothing
remove_ticker_data_keeps_all(entries, ts) ==
    entries

\* remove_ticker_data for every ticker of ts
remove_ticker_data(entries, ts) ==
    SelectSeq(entries, LAMBDA e : e.symbol \notin Range(ts))

\* the entries a script appends: one per ticker whose fetch and conversion
\* gave something, in the order of tickers_to_process
RECURSIVE Fetched(_, _)
Fetched(ts, ok) ==
    IF ts = <<>> THEN <<>>
    ELSE (IF Head(ts) \in ok THEN <<[symbol |-> Head(ts), gen |-> "new"]>> ELSE <<>>)
         \o Fetched(Tail(ts), ok)

\* main() of an aggregate populate script: args after --incremental, the
\* ticker list file, env = how the run goes
populate_script(file, incremental, args, list_file, env) ==
    LET tickers_to_process == IF incremental THEN args ELSE load_ticker_list(list_file)
        kept == IF incremental THEN remove_ticker_data(load_existing_data(file), args)
                ELSE <<>>
    IN IF tickers_to_process = <<>>
       THEN [rc |-> 1, file |-> file, processed |-> <<>>]
       ELSE IF env.how = "save_failed"
            THEN [rc |-> 1, file |-> file, processed |-> tickers_to_process]
            ELSE [rc |-> 0, processed |-> tickers_to_process,
                  file |-> [exists |-> TRUE,
                            entries |-> kept \o Fetched(tickers_to_process, env.ok)]]

\* a variant that starts the script in full mode whatever it is given
run_populate_script_always_full(file, tickers_arg, full_refresh, list_file, env) ==
    LET r == populate_script(file, FALSE, <<>>, list_file, env)
    IN [ok |-> env.how # "timeout" /\ r.rc = 0,
        file |-> IF env.how = "timeout" THEN file ELSE r.file,
        launch |-> [incremental |-> FALSE, args |-> <<>>, processed |-> r.processed]]

\* run_populate_script_for_tickers: True when the script exits 0
run_populate_script_for_tickers(file, tickers_arg, full_refresh, list_file, env) ==
    LET incremental == ~(full_refresh \/ tickers_arg = <<>>)
        r == populate_script(file, incremental, tickers_arg, list_file, env)
    IN IF env.how = "timeout"
       THEN [ok |-> FALSE, file |-> file,
             launch |-> [incremental |-> incremental, args |-> tickers_arg,
                         processed |-> r.processed]]
       ELSE [ok |-> r.rc = 0, file |-> r.file,
             launch |-> [incremental |-> incremental, args |-> tickers_arg,
                         processed |-> r.processed]]

\* repopulate_data_files: the scripts of POPULATE_SCRIPTS in order, each
\* run when its file exists; True when at least one succeeded
repopulate_data_files(new_tickers, full_refresh, lv, bx, list_file, e1, e2) ==
    LET r1 == run_populate_script_for_tickers(lv, new_tickers, full_refresh, list_file, e1)
        r2 == run_populate_script_for_tickers(bx, new_tickers, full_refresh, list_file, e2)
        run1 == e1.how # "missing"
        run2 == e2.how # "missing"
        success_count == (IF run1 /\ r1.ok THEN 1 ELSE 0) + (IF run2 /\ r2.ok THEN 1 ELSE 0)
    IN [ok |-> IF success_count = 2 THEN TRUE ELSE success_count > 0,
        success_count |-> success_count,
        levels |-> IF run1 THEN r1.file ELSE lv,
        boxes |-> IF run2 THEN r2.file ELSE bx,
        launches |-> (IF run1 THEN <<[data_file |-> "levels"] @@ r1.launch>> ELSE <<>>)
                     \o (IF run2 THEN <<[data_file |-> "boxes"] @@ r2.launch>> ELSE <<>>)]

\* the branch run_once takes
run_once_mode(current_tickers, cached_tickers) ==
    LET d == detect_ticker_changes(current_tickers, cached_tickers) IN
    IF d.new_tickers = {} /\ d.removed_tickers = {} /\ cached_tickers # <<>>
    THEN "scheduled"
    ELSE IF d.new_tickers # {} \/ d.removed_tickers # {}
         THEN (IF d.new_tickers # {} THEN "incremental" ELSE "removals")
         ELSE "first_run"

\* after a successful repopulation: copy_files_to_repo, commit_and_push_changes
Publish(pub) == pub

\* run_once(): new_list is list(current_set - cached_set)
run_once(list_file, cache, lv, bx, new_list, e1, e2, pub) ==
    LET current_tickers == load_ticker_list(list_file)
        cached_tickers  == load_ticker_cache(cache)
        mode == run_once_mode(current_tickers, cached_tickers)
        rep  == IF mode \in {"scheduled", "first_run"}
                THEN repopulate_data_files(<<>>, TRUE, lv, bx, list_file, e1, e2)
                ELSE repopulate_data_files(new_list, FALSE, lv, bx, list_file, e1, e2)
    IN IF mode = "removals"
       THEN [cache |-> save_ticker_cache(current_tickers), levels |-> lv, boxes |-> bx,
             launches |-> <<>>, repopulated |-> "none", success_count |-> 0,
             publish |-> "none"]
       ELSE IF rep.ok
            THEN [cache |-> save_ticker_cache(current_tickers), levels |-> rep.levels,
                  boxes |-> rep.boxes, launches |-> rep.launches,
                  repopulated |-> "ok", success_count |-> rep.success_count,
                  publish |-> Publish(pub)]
            ELSE [cache |-> cache, levels |-> rep.levels, boxes |-> rep.boxes,
                  launches |-> rep.launches, repopulated |-> "failed",
                  success_count |-> rep.success_count, publish |-> "none"]

\* a variant that leaves last_hash as it was when the repopulation failed
monitor_iteration_retries_failure(list_file, hash, cache, lv, bx, new_list, e1, e2, pub) ==
    LET current_tickers == load_ticker_list(list_file)
        cached_tickers  == load_ticker_cache(cache)
        rep == repopulate_data_files(new_list, FALSE, lv, bx, list_file, e1, e2)
        same == [cache |-> cache, levels |-> lv, boxes |-> bx, launches |-> <<>>,
                 repopulated |-> "none", success_count |-> 0, publish |-> "none"]
    IN IF list_file.state = "missing"
       THEN same @@ [hash |-> hash]
       ELSE [hash |-> IF hash.known /\ hash.file # list_file /\ ~rep.ok
                      THEN hash ELSE [known |-> TRUE, file |-> list_file]] @@
            (IF hash.known /\ hash.file # list_file
             THEN IF rep.ok
                  THEN [cache |-> save_ticker_cache(current_tickers),
                        levels |-> rep.levels, boxes |-> rep.boxes,
                        launches |-> rep.launches, repopulated |-> "ok",
                        success_count |-> rep.success_count,
                        publish |-> Publish(pub)]
                  ELSE [cache |-> cache, levels |-> rep.levels, boxes |-> rep.boxes,
                        launches |-> rep.launches, repopulated |-> "failed",
                        success_count |-> rep.success_count, publish |-> "none"]
             ELSE same)

\* one iteration of the loop of monitor_ticker_changes()
monitor_iteration(list_file, hash, cache, lv, bx, new_list, e1, e2, pub) ==
    LET current_tickers == load_ticker_list(list_file)
        cached_tickers  == load_ticker_cache(cache)
        rep == repopulate_data_files(new_list, FALSE, lv, bx, list_file, e1, e2)
        same == [cache |-> cache, levels |-> lv, boxes |-> bx, launches |-> <<>>,
                 repopulated |-> "none", success_count |-> 0, publish |-> "none"]
    IN IF list_file.state = "missing"
       THEN same @@ [hash |-> hash]
       ELSE [hash |-> [known |-> TRUE, file |-> list_file]] @@
            (IF hash.known /\ hash.file # list_file
             THEN IF rep.ok
                  THEN [cache |-> save_ticker_cache(current_tickers),
                        levels |-> rep.levels, boxes |-> rep.boxes,
                        launches |-> rep.launches, repopulated |-> "ok",
                        success_count |-> rep.success_count,
                        publish |-> Publish(pub)]
                  ELSE [cache |-> cache, levels |-> rep.levels, boxes |-> rep.boxes,
                        launches |-> rep.launches, repopulated |-> "failed",
                        success_count |-> rep.success_count, publish |-> "none"]
             ELSE same)

\* how a script can go: missing, killed at the timeout, unable to save, or
\* run to its end with the fetch of the tickers of ok successful (all of
\* them, none, or all but B, the ticker of every universe)
ScriptEnvs(to_process) ==
    {[how |-> h, ok |-> {}] : h \in {"missing", "timeout", "save_failed"}}
        \cup {[how |-> "runs", ok |-> S] :
                 S \in {to_process, {}, to_process \ {"B"}}}
PublishOutcomes == {"copy_failed", "commit_failed", "pushed"}

\* the number of things that went wrong in a cycle: scripts not run to their
\* end with every fetch successful, a publication not pushed
Nominal(to_process) == [how |-> "runs", ok |-> to_process]
EnvFault(to_process, e) == IF e # Nominal(to_process) THEN 1 ELSE 0
FaultsOf(to_process, e1, e2, res) ==
    EnvFault(to_process, e1) + EnvFault(to_process, e2)
    + (IF res.publish \in {"copy_failed", "commit_failed"} THEN 1 ELSE 0)
\* the ways of envs that the faults so far leave room for
WithinBudget(envs, to_process, n) ==
    {e \in envs : n + EnvFault(to_process, e) <= MaxScriptFaults}

\* the outcomes of a cycle: those of its publication when it publishes
Published(res) ==
    IF res.publish = "none" THEN {res}
    ELSE {[res EXCEPT !.publish = Publish(pub)] : pub \in PublishOutcomes}

\* the entries of a file seen from the next cycle
Aged(file) == [exists |-> file.exists,
               entries |-> [i \in 1..Len(file.entries) |->
                               [symbol |-> file.entries[i].symbol, gen |-> "old"]]]

NoCycle == [kind |-> "none", current |-> {}, cached |-> {}, cache_state |-> "absent",
            new |-> {}, removed |-> {}, repopulated |-> "none", success_count |-> 0,
            publish |-> "none", changed |-> FALSE]

\* what an earlier complete run left behind: nothing, or the cache of its
\* universe and one entry per ticker in both aggregate files
Installs == {<<>>, <<"A", "B", "C">>, <<"B", "C", "D">>}
Installed(ts) ==
    IF ts = <<>> THEN AbsentData
    ELSE [exists |-> TRUE,
          entries |-> [i \in 1..Len(ts) |-> [symbol |-> ts[i], gen |-> "old"]]]

MonInit ==
    /\ ticker_list_file \in TickerFiles
    /\ \E ts \in Installs :
          /\ ticker_cache = IF ts = <<>> THEN AbsentCache ELSE save_ticker_cache(ts)
          /\ levels_file = Installed(ts)
          /\ boxes_file = Installed(ts)
    /\ last_hash = NoHash
    /\ cycle = NoCycle
    /\ launches = <<>>
    /\ cycles = 0
    /\ script_faults = 0

MonIdle ==
    /\ ticker_list_file = MissingTickerFile
    /\ ticker_cache = AbsentCache
    /\ levels_file = AbsentData
    /\ boxes_file = AbsentData
    /\ last_hash = NoHash
    /\ cycle = NoCycle
    /\ launches = <<>>
    /\ cycles = 0
    /\ script_faults = 0

\* the tickers the scripts get to process in a repopulation
ToProcess(full, new_set, list_file) ==
    IF full \/ new_set = {} THEN Range(load_ticker_list(list_file)) ELSE new_set

CycleOf(kind, changed, res) ==
    LET current == load_ticker_list(ticker_list_file)
        cached  == load_ticker_cache(ticker_cache)
        d == detect_ticker_changes(current, cached)
    IN [kind |-> kind, current |-> Range(current), cached |-> Range(cached),
        cache_state |-> ticker_cache.state, new |-> d.new_tickers,
        removed |-> d.removed_tickers, repopulated |-> res.repopulated,
        success_count |-> res.success_count, publish |-> res.publish,
        changed |-> changed]

\* python monitor_ticker_changes.py --once
RunOnce ==
    /\ cycles < MaxCycles
    /\ cycles' = cycles + 1
    /\ LET current == load_ticker_list(ticker_list_file)
           cached  == load_ticker_cache(ticker_cache)
           d    == detect_ticker_changes(current, cached)
           mode == run_once_mode(current, cached)
           to_process == ToProcess(mode # "incremental", d.new_tickers,
                                   ticker_list_file)
           envs == IF mode = "removals" THEN {Nominal(to_process)}
                   ELSE ScriptEnvs(to_process)
       IN \E new_list \in Orders(d.new_tickers),
             e1 \in WithinBudget(envs, to_process, script_faults) :
          \E e2 \in WithinBudget(envs, to_process,
                                 script_faults + EnvFault(to_process, e1)) :
             \E try \in {run_once(ticker_list_file, ticker_cache, Aged(levels_file),
                                  Aged(boxes_file), new_list, e1, e2, "pushed")} :
             \E res \in Published(try) :
                /\ script_faults + FaultsOf(to_process, e1, e2, res) <= MaxScriptFaults
                /\ script_faults' = script_faults + FaultsOf(to_process, e1, e2, res)
                /\ ticker_cache' = res.cache
                /\ levels_file' = res.levels
                /\ boxes_file' = res.boxes
                /\ launches' = res.launches
                /\ cycle' = CycleOf("once", TRUE, res)
    /\ UNCHANGED <<ticker_list_file, last_hash>>
    /\ UNCHANGED nonMonVars

\* one iteration of the loop of the continuous mode, among the first n cycles
PollWithin(n) ==
    /\ cycles < n
    /\ cycles' = cycles + 1
    /\ LET current == load_ticker_list(ticker_list_file)
           cached  == load_ticker_cache(ticker_cache)
           d    == detect_ticker_changes(current, cached)
           changed == /\ ticker_list_file.state # "missing"
                      /\ last_hash.known
                      /\ last_hash.file # ticker_list_file
           to_process == ToProcess(FALSE, d.new_tickers, ticker_list_file)
           envs == IF ~changed THEN {Nominal(to_process)}
                   ELSE ScriptEnvs(to_process)
       IN \E new_list \in Orders(d.new_tickers),
             e1 \in WithinBudget(envs, to_process, script_faults) :
          \E e2 \in WithinBudget(envs, to_process,
                                 script_faults + EnvFault(to_process, e1)) :
             \E try \in {monitor_iteration(ticker_list_file, last_hash, ticker_cache,
                                           Aged(levels_file), Aged(boxes_file),
                                           new_list, e1, e2, "pushed")} :
             \E res \in Published(try) :
                /\ script_faults + FaultsOf(to_process, e1, e2, res) <= MaxScriptFaults
                /\ script_faults' = script_faults + FaultsOf(to_process, e1, e2, res)
                /\ ticker_cache' = res.cache
                /\ levels_file' = res.levels
                /\ boxes_file' = res.boxes
                /\ launches' = res.launches
                /\ last_hash' = res.hash
                /\ cycle' = CycleOf("poll", changed, res)
    /\ UNCHANGED ticker_list_file
    /\ UNCHANGED nonMonVars

Poll == PollWithin(MaxCycles)

\* the ticker list file is rewritten or removed between two cycles; cycle and
\* launches describe the latest cycle only while its inputs are in place
EditWithin(n) ==
    /\ cycles < n
    /\ \E f \in TickerFiles \ {ticker_list_file} : ticker_list_file' = f
    /\ cycle' = NoCycle
    /\ launches' = <<>>
    /\ UNCHANGED <<ticker_cache, levels_file, boxes_file, last_hash, cycles,
                   script_faults>>
    /\ UNCHANGED nonMonVars

EditTickerList == EditWithin(MaxCycles)

\* one process of `python monitor_ticker_changes.py`: the iterations of its
\* loop, the ticker list file edited between them
LoopPoll == PollWithin(MaxPolls)
LoopEdit == EditWithin(MaxPolls)
LoopNext ==
    \/ LoopPoll
    \/ LoopEdit

----------------------------------------------------------------------------
(* check_memory_usage on samples around its two limits *)

GuardSamples ==
    {MemSample(m, a, e) :
        m \in (MEMORY_THRESHOLD_MB - MemSpread)..(MEMORY_THRESHOLD_MB + MemSpread),
        a \in (MIN_AVAILABLE_MB - MemSpread)..(MIN_AVAILABLE_MB + MemSpread),
        e \in BOOLEAN}

MgInit ==
    /\ mg_sample \in GuardSamples
    /\ mg_result = TRUE
    /\ mg_pc = "sampled"

MgIdle ==
    /\ mg_sample = MemSample(0, 0, FALSE)
    /\ mg_result = TRUE
    /\ mg_pc = "idle"

\* self.check_memory_usage()
CheckMemoryUsage ==
    /\ mg_pc = "sampled"
    /\ mg_result' = CheckSample(mg_sample)
    /\ mg_pc' = "checked"
    /\ UNCHANGED mg_sample
    /\ UNCHANGED nonMgVars

----------------------------------------------------------------------------
(* save_progress then load_progress on drawn sets *)

\* progress_data of save_progress: list(set) enumerates a set in some order
progress_data(p, f, order_p, order_f) ==
    [processed |-> order_p, failed |-> order_f]

\* a variant that reads both sets from the key 'processed'
parse_progress_one_key(data) ==
    ProgressOf(Range(data.processed), Range(data.processed))

\* the two set(data.get(..., [])) of load_progress
parse_progress(data) ==
    ProgressOf(Range(data.processed), Range(data.failed))

NoData == [processed |-> <<>>, failed |-> <<>>]

PsInit ==
    /\ ps_processed \in SUBSET Tickers
    /\ ps_failed \in SUBSET Tickers
    /\ ps_data = NoData
    /\ ps_instance = "none"
    /\ ps_loaded = EmptyProgress
    /\ ps_pc = "drawn"

PsIdle ==
    /\ ps_processed = {}
    /\ ps_failed = {}
    /\ ps_data = NoData
    /\ ps_instance = "none"
    /\ ps_loaded = EmptyProgress
    /\ ps_pc = "idle"

\* save_progress() of a monitor holding (ps_processed, ps_failed)
PsSave ==
    /\ ps_pc = "drawn"
    /\ \E order_p \in Orders(ps_processed), order_f \in Orders(ps_failed) :
          ps_data' = progress_data(ps_processed, ps_failed, order_p, order_f)
    /\ ps_pc' = "saved"
    /\ UNCHANGED <<ps_processed, ps_failed, ps_instance, ps_loaded>>
    /\ UNCHANGED nonPsVars

\* load_progress() of the same monitor, or of a new one (its sets are empty
\* when __init__ calls load_progress)
PsLoad ==
    /\ ps_pc = "saved"
    /\ \E instance \in {"same", "new"} :
          LET parsed == parse_progress(ps_data)
              start  == IF instance = "same"
                        THEN ProgressOf(ps_processed, ps_failed)
                        ELSE EmptyProgress
          IN /\ ps_loaded' = load_progress(FileOf(parsed.processed, parsed.failed),
                                           start.processed, start.failed)
             /\ ps_instance' = instance
    /\ ps_pc' = "loaded"
    /\ UNCHANGED <<ps_processed, ps_failed, ps_data>>
    /\ UNCHANGED nonPsVars

----------------------------------------------------------------------------
(* populate_ticker_data.py: the result lists built from a response.        *)
(* A row of a response is [id, ticker, rank, ok]: id is its position,      *)
(* ticker the value of its Ticker field ("" when null), rank its rank and  *)
(* ok tells whether its fields convert (float/int) without ValueError.     *)

rank_limit   == 20
prints_limit == 10
levels_limit == 5

\* the longest response drawn
MaxRows == 14

\* a variant of s[:n] that keeps everything
TakeAll(s, n) == s

\* s[:n]
Take(s, n) == SubSeq(s, 1, Min(n, Len(s)))

\* list.sort(key=lambda x: x['rank']): stable, ascending
RECURSIVE InsertByRank(_, _)
InsertByRank(x, s) ==
    IF s = <<>> THEN <<x>>
    ELSE IF s[Len(s)].rank <= x.rank THEN Append(s, x)
    ELSE Append(InsertByRank(x, SubSeq(s, 1, Len(s) - 1)), s[Len(s)])

RECURSIVE SortByRank(_)
SortByRank(s) ==
    IF s = <<>> THEN <<>>
    ELSE InsertByRank(s[Len(s)], SortByRank(SubSeq(s, 1, Len(s) - 1)))

\* fetch_big_prints_batch on a response with the given rows
batch_prints_result(rows, tickers_batch) ==
    [t \in Range(tickers_batch) |->
        Take(SortByRank(SelectSeq(rows, LAMBDA r :
                 r.ticker = t /\ r.ok /\ r.rank <= rank_limit)), prints_limit)]

\* fetch_big_prints_for_ticker on a response with the given rows
ticker_prints_result(rows, ticker) ==
    [t \in {ticker} |->
        Take(SortByRank(SelectSeq(rows, LAMBDA r : r.ok /\ r.rank <= rank_limit)),
             prints_limit)]

\* the ticker a row of a levels response is assigned to
LevelTicker(r, tickers_batch) ==
    IF r.ticker = "" /\ Len(tickers_batch) = 1 THEN tickers_batch[1] ELSE r.ticker

\* fetch_support_resistance_batch on a response with the given rows
batch_levels_result(rows, tickers_batch) ==
    [t \in Range(tickers_batch) |->
        Take(SelectSeq(rows, LAMBDA r : LevelTicker(r, tickers_batch) = t /\ r.ok),
             levels_limit)]

\* fetch_support_resistance_for_ticker on a script output with the given rows
ticker_levels_result(rows, ticker) ==
    [t \in {ticker} |-> SelectSeq(Take(rows, levels_limit), LAMBDA r : r.ok)]

\* the responses drawn: n rows whose ranks run through 9..22 in an order
\* given by a and b, whose tickers follow a pattern, and of which every
\* bad-th does not convert
TickerAt(pattern, i) ==
    IF pattern = "both" THEN (IF i % 2 = 0 THEN "B" ELSE "A")
    ELSE IF pattern = "null" THEN (IF i % 3 = 0 THEN "" ELSE "A")
    ELSE IF pattern = "foreign" THEN (IF i % 3 = 0 THEN "Z" ELSE "A")
    ELSE "A"

RowsOf(n, a, b, pattern, bad) ==
    [i \in 1..n |-> [id |-> i, ticker |-> TickerAt(pattern, i),
                     rank |-> 9 + ((a * i + b) % 14),
                     ok |-> bad = 0 \/ i % bad # 0]]

Responses ==
    {RowsOf(n, a, b, pattern, bad) :
        n \in 0..MaxRows, a \in {1, 3, 5, 9, 11, 13}, b \in {0, 5},
        pattern \in {"one", "both", "null", "foreign"}, bad \in {0, 4}}

NoLists == [t \in {} |-> <<>>]

ShInit ==
    /\ sh_rows \in Responses
    /\ sh_batch \in {<<"A">>, <<"A", "B">>}
    /\ sh_result = NoLists
    /\ sh_path = "none"
    /\ sh_pc = "drawn"

ShIdle ==
    /\ sh_rows = <<>>
    /\ sh_batch = <<>>
    /\ sh_result = NoLists
    /\ sh_path = "none"
    /\ sh_pc = "idle"

ShPrintsBatch ==
    /\ sh_pc = "drawn"
    /\ sh_result' = batch_prints_result(sh_rows, sh_batch)
    /\ sh_path' = "prints_batch"
    /\ sh_pc' = "done"
    /\ UNCHANGED <<sh_rows, sh_batch>>
    /\ UNCHANGED nonShVars

ShPrintsTicker ==
    /\ sh_pc = "drawn"
    /\ sh_result' = ticker_prints_result(sh_rows, Head(sh_batch))
    /\ sh_path' = "prints_ticker"
    /\ sh_pc' = "done"
    /\ UNCHANGED <<sh_rows, sh_batch>>
    /\ UNCHANGED nonShVars

ShLevelsBatch ==
    /\ sh_pc = "drawn"
    /\ sh_result' = batch_levels_result(sh_rows, sh_batch)
    /\ sh_path' = "levels_batch"
    /\ sh_pc' = "done"
    /\ UNCHANGED <<sh_rows, sh_batch>>
    /\ UNCHANGED nonShVars

ShLevelsTicker ==
    /\ sh_pc = "drawn"
    /\ sh_result' = ticker_levels_result(sh_rows, Head(sh_batch))
    /\ sh_path' = "levels_ticker"
    /\ sh_pc' = "done"
    /\ UNCHANGED <<sh_rows, sh_batch>>
    /\ UNCHANGED nonShVars

----------------------------------------------------------------------------
(* populate_ticker_data.py: the working directory of the process.          *)
(* fetch_support_resistance_for_ticker and fetch_price_boxes_for_ticker    *)
(* run in the worker threads of the pool; each reads os.getcwd(), changes  *)
(* the directory of the whole process to project_root and restores the     *)
(* value it read in its finally block. The three calls are separate steps  *)
(* of a thread and interleave freely with those of the other threads.      *)
(* cw_dir is "start_dir", the directory main() was started in, or          *)
(* "project_root", Path(__file__).parent.parent.                           *)

\* the fallback fetches one worker thread makes at most
MaxFallbacks == 2

Workers == 1..max_workers

CwInit ==
    /\ cw_dir = "start_dir"
    /\ cw_pc = [w \in Workers |-> "idle"]
    /\ cw_saved = [w \in Workers |-> "unset"]
    /\ cw_left \in [Workers -> 0..MaxFallbacks]

CwIdle ==
    /\ cw_dir = "start_dir"
    /\ cw_pc = <<>>
    /\ cw_saved = <<>>
    /\ cw_left = <<>>

\* original_cwd = os.getcwd()
CwGetcwd(w) ==
    /\ cw_pc[w] = "idle"
    /\ cw_left[w] > 0
    /\ cw_saved' = [cw_saved EXCEPT ![w] = cw_dir]
    /\ cw_pc' = [cw_pc EXCEPT ![w] = "read"]
    /\ UNCHANGED <<cw_dir, cw_left>>
    /\ UNCHANGED nonCwVars

\* os.chdir(project_root)
CwChdir(w) ==
    /\ cw_pc[w] = "read"
    /\ cw_dir' = "project_root"
    /\ cw_pc' = [cw_pc EXCEPT ![w] = "fetching"]
    /\ UNCHANGED <<cw_saved, cw_left>>
    /\ UNCHANGED nonCwVars

\* finally: os.chdir(original_cwd), whatever the script run did
CwRestore(w) ==
    /\ cw_pc[w] = "fetching"
    /\ cw_dir' = cw_saved[w]
    /\ cw_pc' = [cw_pc EXCEPT ![w] = "idle"]
    /\ cw_left' = [cw_left EXCEPT ![w] = @ - 1]
    /\ UNCHANGED cw_saved
    /\ UNCHANGED nonCwVars

----------------------------------------------------------------------------
(* Specifications *)

BoNext == BoCall

PopNext ==
    \/ PopNoTickers
    \/ PopBegin
    \/ FetchPrintsBatch
    \/ FetchLevelsTicker
    \/ FetchBoxesBatch
    \/ WorkerStart
    \/ \E t \in Tickers : WorkerFinish(t)
    \/ \E t \in Tickers : Collect(t)
    \/ PopFinish

RobNext ==
    \/ RobMain
    \/ RunFullRefreshBegin
    \/ ProcessTickerBatch
    \/ SaveProgress
    \/ NextBatch
    \/ RunFullRefreshEnd
    \/ Interrupt
    \/ InterruptSave
    \/ CorruptProgress

MonNext ==
    \/ RunOnce
    \/ Poll
    \/ EditTickerList

MgNext == CheckMemoryUsage

PsNext ==
    \/ PsSave
    \/ PsLoad

\* Resume runs over the fixed universe TickerList, repeated for ever: a new
\* `--resume` process starts whenever the previous one has ended.  Up to
\* run MaxRuns - 1 a run may be interrupted, a memory check may fail and a
\* batch may fail; from run MaxRuns on every memory check passes, every
\* launched batch exits 0 and no run is interrupted.
GoodRuns == runs >= MaxRuns

LiveMain ==
    /\ r_pc = "idle"
    /\ runs' = IF runs < MaxRuns THEN runs + 1 ELSE runs
    /\ LET st == load_progress(progress_file, {}, {}) IN
       /\ processed_tickers' = st.processed
       /\ failed_tickers' = st.failed
    /\ r_clear' = FALSE
    /\ r_pc' = "refresh"
    /\ r_exit' = -1
    /\ all_tickers' = <<>>
    /\ remaining_tickers' = <<>>
    /\ r_i' = 0
    /\ successful_batches' = 0
    /\ last_batch' = NoBatch
    /\ published' = NoPublish
    /\ UNCHANGED progress_file
    /\ UNCHANGED nonRobVars

LiveBegin == RunFullRefreshBegin /\ all_tickers' = TickerList

LiveBatch ==
    /\ ProcessTickerBatch
    /\ GoodRuns => (last_batch'.c1 /\ last_batch'.outcome = "rc0")

LiveNextBatch ==
    /\ NextBatch
    /\ GoodRuns => (r_i' # r_i \/ r_i + MonitorBatchSize >= Len(remaining_tickers))

LiveInterrupt == ~GoodRuns /\ Interrupt

LiveNext ==
    \/ LiveMain
    \/ LiveBegin
    \/ LiveBatch
    \/ SaveProgress
    \/ LiveNextBatch
    \/ RunFullRefreshEnd
    \/ LiveInterrupt

CwNext ==
    \/ \E w \in Workers : CwGetcwd(w)
    \/ \E w \in Workers : CwChdir(w)
    \/ \E w \in Workers : CwRestore(w)

ShNext ==
    \/ ShPrintsBatch
    \/ ShPrintsTicker
    \/ ShLevelsBatch
    \/ ShLevelsTicker

BackoffInit  == BoInit /\ PopIdle /\ RobIdle /\ MonIdle /\ MgIdle /\ PsIdle /\ ShIdle /\ CwIdle
PopulateInit == PopInit /\ BoIdle /\ RobIdle /\ MonIdle /\ MgIdle /\ PsIdle /\ ShIdle /\ CwIdle
RobustInit   == RobInit /\ BoIdle /\ PopIdle /\ MonIdle /\ MgIdle /\ PsIdle /\ ShIdle /\ CwIdle
MonitorInit  == MonInit /\ BoIdle /\ PopIdle /\ RobIdle /\ MgIdle /\ PsIdle /\ ShIdle /\ CwIdle
GuardInit    == MgInit /\ BoIdle /\ PopIdle /\ RobIdle /\ MonIdle /\ PsIdle /\ ShIdle /\ CwIdle
ProgressInit == PsInit /\ BoIdle /\ PopIdle /\ RobIdle /\ MonIdle /\ MgIdle /\ ShIdle /\ CwIdle
ShapeInit    == ShInit /\ BoIdle /\ PopIdle /\ RobIdle /\ MonIdle /\ MgIdle /\ PsIdle /\ CwIdle
CwdInit      == CwInit /\ BoIdle /\ PopIdle /\ RobIdle /\ MonIdle /\ MgIdle /\ PsIdle /\ ShIdle

SpecBackoff == BackoffInit /\ [][BoNext]_vars

SpecPopulate == PopulateInit /\ [][PopNext]_vars

SpecRobust == RobustInit /\ [][RobNext]_vars

SpecMonitor == MonitorInit /\ [][MonNext]_vars

SpecMonitorLoop == MonitorInit /\ [][LoopNext]_vars

SpecGuard == GuardInit /\ [][MgNext]_vars

SpecProgress == ProgressInit /\ [][PsNext]_vars

SpecShape == ShapeInit /\ [][ShNext]_vars

SpecCwd == CwdInit /\ [][CwNext]_vars

\* the runs follow each other without end, and each step of a run is taken
SpecRobustLive == RobustInit /\ [][LiveNext]_vars /\ WF_vars(LiveNext)

----------------------------------------------------------------------------
(* Properties *)

\* the number of leading failures of func among its first n invocations
RECURSIVE LeadingFailures(_, _)
LeadingFailures(func, n) ==
    IF n = 0 \/ ~IsRaise(func[1]) THEN 0
    ELSE 1 + LeadingFailures(Tail(func), n - 1)

\* C4: when func fails exactly k times, k not above max_retries, and then
\* succeeds, retry_with_backoff returns that success after exactly k + 1
\* invocations; when func fails on each of its max_retries + 1 invocations,
\* retry_with_backoff raises the exception of the last one after exactly
\* max_retries + 1 invocations.
C4_RetryCallCount ==
    bo_pc = "done" =>
        LET k == LeadingFailures(bo_func, bo_max_retries + 1) IN
        IF k <= bo_max_retries
        THEN /\ ~bo_result.raised
             /\ bo_result.outcome = bo_func[k + 1]
             /\ bo_result.calls = k + 1
        ELSE /\ bo_result.raised
             /\ bo_result.outcome = bo_func[bo_max_retries + 1]
             /\ bo_result.calls = bo_max_retries + 1

C4_Witness ==
    /\ bo_pc = "done"
    /\ bo_max_retries = 3
    /\ LeadingFailures(bo_func, 4) = 2
    /\ ~bo_result.raised
    /\ bo_result.calls = 3
    /\ Len(bo_result.sleeps) = 2

\* the batch cache of a category
CacheOf(cat) ==
    IF cat = "prints" THEN batch_prints_cache
    ELSE IF cat = "levels" THEN batch_levels_cache
    ELSE batch_boxes_cache

\* C1: once the batch stage of main() is over, every item of a group whose
\* fetch ended with the executor giving up has the sentinel None as its
\* batch cache entry, and a record written for it holds the result of the
\* individual fetch of that category, not the failed group result.
C1_ExhaustedGroupGetsSentinel ==
    p_pc \in {"pool", "done"} =>
        \A e \in exhausted :
            /\ CacheOf(e[1])[e[2]] = "none"
            /\ records[e[2]] # NoRec => e[1] \in records[e[2]].via

\* the data of a category of ticker t was not obtained: its group fetch was
\* given up and no individual fetch replaced it, or its individual fetch
\* was given up
Unobtained(t) ==
    \E c \in Cats :
        \/ <<c, t>> \in exhausted /\ records[t] # NoRec /\ c \notin records[t].via
        \/ <<c, t>> \in fallback_failed

\* C2: at the end of a run of main(), every item whose data was not obtained
\* (its group fetch failed on every retry and no individual fetch gave it,
\* or its individual fetch failed) is counted failed, so that the summary's
\* failed count is the number of such items.
C2_FailedCountsUnobtained ==
    p_pc = "done" /\ exit_code = 0 =>
        /\ \A t \in Range(tickers) : Unobtained(t) => futures[t] = "False"
        /\ failed >= Cardinality({t \in Range(tickers) : Unobtained(t)})

\* C3: whenever the progress file holds a saved state, its processed and
\* failed sets are disjoint.
C3_SavedSetsDisjoint ==
    progress_file.state = "saved" =>
        progress_file.processed \cap progress_file.failed = {}

\* C5: when a run is interrupted, the state a later process loads from the
\* progress file lacks, of what the interrupted run held in memory, at most
\* the tickers of one batch (the file not having been damaged from outside).
C5_InterruptLosesOneBatch ==
    r_exit = 130 /\ progress_file.state # "corrupt" =>
        LET st == load_progress(progress_file, {}, {}) IN
        (processed_tickers \cup failed_tickers) \ (st.processed \cup st.failed)
            \subseteq Range(last_batch.batch)

\* C10: when main() of populate_ticker_data has ended, its exit code is 0
\* exactly when at least one item was processed successfully.
C10_ExitCodeReflectsSuccess ==
    p_pc = "done" => (exit_code = 0 <=> successful >= 1)

\* the symbols with an entry in an aggregate file
SymbolsIn(file) == {file.entries[i].symbol : i \in 1..Len(file.entries)}

\* C6: after a run_once that found no ticker cache, every populate script
\* that was started was started in full mode.
C6_NoCacheRunsFull ==
    cycle.kind = "once" /\ cycle.cache_state = "absent" =>
        \A i \in 1..Len(launches) : ~launches[i].incremental

\* C7: after a run_once that found a non-empty cache: when nothing was added
\* and nothing removed, every script started was started in full mode and
\* processed the whole current universe; otherwise every script started was
\* started with --incremental and exactly the added tickers, none of which
\* is in the cache.
C7_RunOnceWithCache ==
    cycle.kind = "once" /\ cycle.cached # {} =>
        IF cycle.new = {} /\ cycle.removed = {}
        THEN \A i \in 1..Len(launches) :
                /\ ~launches[i].incremental
                /\ Range(launches[i].processed) = cycle.current
        ELSE \A i \in 1..Len(launches) :
                /\ launches[i].incremental
                /\ Range(launches[i].args) = cycle.new
                /\ Range(launches[i].processed) = cycle.new
                /\ Range(launches[i].args) \cap cycle.cached = {}

C7_Witness ==
    /\ cycle.kind = "once"
    /\ cycle.cached = {"B", "C", "D"}
    /\ cycle.current = {"A", "B", "C"}
    /\ Len(launches) = 2
    /\ \A i \in 1..2 : launches[i].incremental /\ launches[i].args = <<"A">>
    /\ ticker_cache = save_ticker_cache(<<"A", "B", "C">>)

\* C8: after a successful incremental run_once in which tickers were removed
\* from the universe, neither aggregate file has an entry for a removed
\* ticker.
C8_RemovedTickerHasNoEntry ==
    /\ cycle.kind = "once"
    /\ cycle.new # {}
    /\ cycle.removed # {}
    /\ cycle.repopulated = "ok"
    => (SymbolsIn(levels_file) \cup SymbolsIn(boxes_file)) \cap cycle.removed = {}

\* C9: after a run_once, or an iteration of the monitoring loop that saw the
\* ticker list change, in which tickers were removed and none added, no
\* populate script was started.
C9_RemovalsStartNoScript ==
    /\ cycle.kind \in {"once", "poll"}
    /\ cycle.changed
    /\ cycle.new = {}
    /\ cycle.removed # {}
    => launches = <<>>

\* C11: in a run of run_full_refresh in which no batch succeeded, neither
\* copy_files_to_repo nor commit_and_push is invoked, whatever progress the
\* process loaded.
C11_NoPublishWithoutNewBatch ==
    successful_batches = 0 => published = NoPublish

\* C12: when the ticker list file is missing or malformed, run_once ends
\* before any fetch and leaves the ticker cache and the aggregate files as
\* they were.
C12_UnreadableUniverseChangesNothing ==
    (cycle.kind = "once" /\ ticker_list_file.state # "ok") =>
        /\ ticker_cache.state = cycle.cache_state
        /\ Range(ticker_cache.tickers) = cycle.cached
        /\ \A i \in 1..Len(launches) : launches[i].processed = <<>>
        /\ \A i \in 1..Len(levels_file.entries) : levels_file.entries[i].gen = "old"
        /\ \A i \in 1..Len(boxes_file.entries) : boxes_file.entries[i].gen = "old"

\* the latest cycle left the ticker cache as it found it
CacheUntouched ==
    /\ ticker_cache.state = cycle.cache_state
    /\ Range(ticker_cache.tickers) = cycle.cached

\* the scripts of the latest cycle stored data for no ticker
NothingObtained ==
    /\ \A i \in 1..Len(levels_file.entries) : levels_file.entries[i].gen = "old"
    /\ \A i \in 1..Len(boxes_file.entries) : boxes_file.entries[i].gen = "old"

\* C13: when the populate scripts of a cycle obtained data for zero tickers,
\* save_ticker_cache is not called: the ticker cache is as before the cycle.
C13_NoDataNoCacheUpdate ==
    (cycle.kind # "none" /\ launches # <<>> /\ NothingObtained) => CacheUntouched

\* C14: when the repopulation of either aggregate file fails (script missing,
\* timeout, non-zero exit), the ticker cache is as before the cycle.
C14_FailedScriptNoCacheUpdate ==
    (cycle.kind # "none" /\ cycle.repopulated # "none" /\ cycle.success_count < 2)
        => CacheUntouched

\* C15: after a run_once whose repopulation (incremental or full) succeeded,
\* the ticker cache holds exactly the tickers of the current list, so that
\* detect_ticker_changes of the list and the cache gives two empty sets.
C15_CacheIsCurrentAfterSuccess ==
    (cycle.kind = "once" /\ cycle.repopulated = "ok") =>
        /\ ticker_cache.state = "saved"
        /\ ticker_cache.tickers = load_ticker_list(ticker_list_file)
        /\ Range(ticker_cache.tickers) = cycle.current
        /\ LET d == detect_ticker_changes(load_ticker_list(ticker_list_file),
                                          load_ticker_cache(ticker_cache))
           IN d.new_tickers = {} /\ d.removed_tickers = {}

\* an incremental run that found the cache {B, C, D} and the list [A, B, C]
C15_Witness ==
    /\ cycle.kind = "once"
    /\ cycle.repopulated = "ok"
    /\ cycle.cached = {"B", "C", "D"}
    /\ cycle.new = {"A"}
    /\ cycle.removed = {"D"}
    /\ ticker_cache.tickers = <<"A", "B", "C">>

\* C16: a batch whose memory check fails is paused, not skipped: the run
\* goes on to the next batch only after the batch was handed to a subprocess.
C16_PausedBatchIsProcessed ==
    (r_pc = "batch" /\ last_batch # NoBatch) => last_batch.launched

\* C17: check_memory_usage returns False exactly when the resident memory
\* exceeds 1000 MB or the available memory is below 200 MB, and True
\* otherwise, a value equal to its limit included.
C17_FalseExactlyBeyondLimits ==
    (mg_pc = "checked" /\ ~mg_sample.error) =>
        (mg_result = FALSE <=> (\/ mg_sample.memory_mb > MEMORY_THRESHOLD_MB
                                \/ mg_sample.available_mb < MIN_AVAILABLE_MB))

\* C18: whoever reads the progress file finds no file, the complete state of
\* the previous save_progress or the complete state of the new one, never
\* a part of a write.
C18_ReaderSeesCompleteState ==
    progress_file.state # "partial"

\* the run is a resume run (clear_progress = False) about to submit its
\* first batch, with the progress of the previous run loaded from the file
Resuming ==
    /\ r_pc = "batch"
    /\ last_batch = NoBatch
    /\ ~r_clear
    /\ progress_file.state = "saved"

\* C19: the tickers a resume run submits are the tickers of the universe that
\* are not in the persisted processed set: none of them is in that set, and
\* every persisted failed ticker that is in the universe and not in the
\* processed set is among them.
C19_ResumeTargetsUnprocessed ==
    Resuming =>
        /\ Range(remaining_tickers) = Range(all_tickers) \ progress_file.processed
        /\ Range(remaining_tickers) \cap progress_file.processed = {}
        /\ (progress_file.failed \cap Range(all_tickers)) \ progress_file.processed
              \subseteq Range(remaining_tickers)

\* a resume run after a run that saved processed = {A, B} and was stopped
\* before it came to C
C19_Witness ==
    /\ Resuming
    /\ progress_file.processed = {"A", "B"}
    /\ progress_file.failed = {}
    /\ remaining_tickers = <<"C">>

\* C19 as stated: the tickers a resume run submits are exactly the persisted
\* failed set.
C19_ResumeTargetsFailedSet ==
    Resuming => Range(remaining_tickers) = progress_file.failed

C21_UnreadableProgressIsFreshStart ==
    (r_pc = "refresh" /\ progress_file.state \in {"absent", "corrupt", "partial"}) =>
        /\ processed_tickers = {}
        /\ failed_tickers = {}
        /\ r_exit = -1

\* a run started over a file whose 'processed' list was readable and whose
\* 'failed' entry was not
C21_Witness ==
    /\ r_pc = "refresh"
    /\ progress_file.state = "corrupt"
    /\ progress_file.processed # {}
    /\ processed_tickers = {}
    /\ failed_tickers = {}

\* clear_progress has just returned: at the start of a run with
\* --clear-progress, or at the end of a run that processed every ticker
JustCleared ==
    \/ r_clear /\ r_pc = "batch" /\ last_batch = NoBatch
    \/ r_pc = "idle" /\ r_exit = 0 /\ last_batch # NoBatch

C23_DiffIsSetDifference ==
    cycle.kind # "none" =>
        LET current == load_ticker_list(ticker_list_file)
            d == detect_ticker_changes(current, current)
        IN /\ cycle.new = cycle.current \ cycle.cached
           /\ cycle.removed = cycle.cached \ cycle.current
           /\ cycle.new \cap cycle.removed = {}
           /\ d.new_tickers = {} /\ d.removed_tickers = {}

\* a cycle that found D gone and A new
C23_Witness ==
    /\ cycle.kind # "none"
    /\ cycle.current = {"A", "B", "C"}
    /\ cycle.cached = {"B", "C", "D"}
    /\ cycle.new = {"A"}
    /\ cycle.removed = {"D"}

\* the least k with k * g >= n
CeilDiv(n, g) == CHOOSE k \in 0..n : k * g >= n /\ \A j \in 0..n : j * g >= n => k <= j

\* C24: the batch stage calls the group fetch ceil(|U| / G) times for the
\* prints and for the boxes and |U| times for the levels, however the calls
\* end.
C24_GroupCallCounts ==
    (p_pc \in {"pool", "done"} /\ tickers # <<>>) =>
        /\ group_calls["prints"] = CeilDiv(Len(tickers), GroupSize)
        /\ group_calls["boxes"] = CeilDiv(Len(tickers), GroupSize)
        /\ group_calls["levels"] = Len(tickers)

\* three tickers in groups of two, one group fetch having failed
C24_Witness ==
    /\ p_pc = "pool"
    /\ Len(tickers) = 3
    /\ faults > 0
    /\ exhausted # {}
    /\ group_calls = [c \in Cats |-> IF c = "levels" THEN 3 ELSE 2]

\* the cache of a category
CategoryCache(cat) ==
    IF cat = "prints" THEN batch_prints_cache
    ELSE IF cat = "levels" THEN batch_levels_cache
    ELSE batch_boxes_cache

\* C25: a group fetch whose request is answered by a successful, empty
\* response makes that one request only and gives every ticker of the group
\* the entry [] (not None); process_ticker then makes no direct fetch for
\* these tickers in that category.
C25_EmptyAnswerIsNotRetried ==
    /\ last_fetch.empty_answer =>
          /\ last_fetch.calls = 1
          /\ \A t \in Range(last_fetch.batch) : CategoryCache(last_fetch.cat)[t] = "empty"
    /\ \A t \in Tickers, c \in Cats :
          (CategoryCache(c)[t] = "empty" /\ records[t] # NoRec) => c \notin records[t].via

\* the boxes request of a full group was answered at once with an empty
\* response, and every ticker of the group has the entry []
C25_Witness ==
    /\ last_fetch.cat = "boxes"
    /\ last_fetch.empty_answer
    /\ last_fetch.calls = 1
    /\ Len(last_fetch.batch) = GroupSize
    /\ \A t \in Range(last_fetch.batch) : batch_boxes_cache[t] = "empty"

\* the categories for which the caches make process_ticker(t) fetch directly
NotCached(t) == {c \in Cats : CategoryCache(c)[t] \in {"none", "absent"}}

\* process_ticker(t) has run to its end
Processed(t) == futures[t] \in {"True", "False", "Raised"}

C27_CachesCoverUniverse ==
    (p_pc \in {"pool", "done"} /\ exit_code # 1) =>
        \A c \in Cats, t \in Range(tickers) :
            CategoryCache(c)[t] \in {"data", "empty", "none"}

\* the batch stage has ended after a prints group fetch that raised, one
\* that brought data and a boxes group fetch answered without data
C27_Witness ==
    /\ p_pc = "pool"
    /\ tickers = TickerList
    /\ batch_prints_cache["A"] = "none"
    /\ batch_prints_cache["C"] = "data"
    /\ batch_boxes_cache["A"] = "empty"

\* the tickers whose future ended in one of the given ways
FuturesIn(ends) == {t \in Range(tickers) : futures[t] \in ends}

\* C28: a task of the pool that returns False or whose future raises is
\* counted as failed and the run goes on: the counters always account for
\* the futures collected so far, and when main() returns every ticker of
\* the universe has been completed and successful + failed is the number
\* of tickers submitted.
C28_FailuresCountedRunCompletes ==
    /\ successful = Cardinality(completed \cap FuturesIn({"True"}))
    /\ failed = Cardinality(completed \cap FuturesIn({"False", "Raised"}))
    /\ (p_pc = "done" /\ exit_code = 0) =>
          /\ completed = Range(tickers)
          /\ successful + failed = Len(tickers)

\* main() has returned after one task returned False, one future raised and
\* one task succeeded
C28_Witness ==
    /\ p_pc = "done"
    /\ exit_code = 0
    /\ FuturesIn({"False"}) # {}
    /\ FuturesIn({"Raised"}) # {}
    /\ successful = 1
    /\ failed = 2

\* C29: whatever the copy and the push of the publish step do, the end of
\* run_full_refresh leaves the return value (exit code), the progress file
\* and the in-memory sets that it leaves when the publication succeeds, and
\* the run ends without another batch being fetched.
C29_PublishFailureChangesNothing ==
    [][(r_pc = "summary" /\ r_exit' # 130) =>
          LET ok == refresh_summary(progress_file, processed_tickers,
                                    failed_tickers, all_tickers, TRUE, TRUE)
          IN /\ r_exit' = (IF ok.ret THEN 0 ELSE 1)
             /\ progress_file' = ok.file
             /\ processed_tickers' = ok.processed
             /\ failed_tickers' = ok.failed
             /\ r_pc' = "idle"
             /\ last_batch' = last_batch
             /\ successful_batches' = successful_batches]_vars

\* a run in which every ticker was processed has ended with the push
\* failed: it returned True and cleared the progress
C29_Witness ==
    /\ r_pc = "idle"
    /\ published.copy = "ok"
    /\ published.push = "failed"
    /\ r_exit = 0
    /\ all_tickers # <<>>
    /\ progress_file = AbsentFile

\* C30: retry_with_backoff sleeps once after each failed attempt a with
\* a < max_retries and not after the attempt max_retries; the sleep after
\* attempt a lasts d + j with d = min(base_delay * 2^a, max_delay) and
\* 10% of d <= j <= 30% of d.
C30_SleepsFollowBackoffLaw ==
    bo_pc = "done" =>
        /\ Len(bo_result.sleeps) =
              Min(LeadingFailures(bo_func, bo_max_retries + 1), bo_max_retries)
        /\ \A i \in 1..Len(bo_result.sleeps) :
              LET d == IF bo_base_delay * Pow2(i - 1) < bo_max_delay
                       THEN bo_base_delay * Pow2(i - 1) ELSE bo_max_delay
                  j == bo_result.sleeps[i] - d
              IN 10 * d <= 100 * j /\ 100 * j <= 30 * d

\* every attempt failed, three sleeps were made and the third was capped
\* by max_delay
C30_Witness ==
    /\ bo_pc = "done"
    /\ bo_result.raised
    /\ bo_max_retries = 3
    /\ Len(bo_result.sleeps) = 3
    /\ bo_base_delay * 4 > bo_max_delay
    /\ bo_result.sleeps[3] = bo_max_delay + (30 * bo_max_delay) \div 100

\* C31: when the sampling of the memory raises, check_memory_usage returns
\* True, and process_ticker_batch called with that answer hands its batch to
\* the subprocess whatever the second check would say: a sampling failure
\* neither stops nor skips a batch.
C31_SamplingErrorFailsOpen ==
    (mg_pc = "checked" /\ mg_sample.error) =>
        /\ mg_result = TRUE
        /\ \A c2 \in BOOLEAN, outcome \in BatchOutcomes :
              process_ticker_batch(<<"A", "B">>, {}, {}, mg_result, c2,
                                   outcome).launched

\* the check has answered True for a failed sampling although the values
\* last seen were beyond both limits
C31_Witness ==
    /\ mg_pc = "checked"
    /\ mg_sample.error
    /\ mg_sample.memory_mb > MEMORY_THRESHOLD_MB
    /\ mg_sample.available_mb < MIN_AVAILABLE_MB
    /\ mg_result = TRUE

\* the rows of the response that qualify as prints of ticker t on the path
\* taken: convertible, of rank 20 or better and, on the batch path, of t
QualifyingIds(t) ==
    {i \in 1..Len(sh_rows) :
        /\ sh_rows[i].ok
        /\ sh_rows[i].rank <= rank_limit
        /\ (sh_path = "prints_batch" => sh_rows[i].ticker = t)}

\* C32: every prints result has at most 10 records, all of rank 20 or
\* better, in ascending rank order, and they are the 10 best-ranked
\* qualifying rows of the ticker; every levels result has at most 5 records;
\* on the batch path and on the per-item path alike.
C32_ResultListsAreBounded ==
    sh_pc = "done" =>
        \A t \in DOMAIN sh_result :
            LET res == sh_result[t]
                ids == {res[i].id : i \in 1..Len(res)}
            IN IF sh_path \in {"prints_batch", "prints_ticker"}
               THEN /\ Len(res) <= prints_limit
                    /\ \A i \in 1..Len(res) : res[i].rank <= rank_limit
                    /\ \A i, j \in 1..Len(res) : i < j => res[i].rank <= res[j].rank
                    /\ Cardinality(ids) = Len(res)
                    /\ ids \subseteq QualifyingIds(t)
                    /\ \A q \in QualifyingIds(t) \ ids :
                          /\ Len(res) = prints_limit
                          /\ sh_rows[q].rank >= res[Len(res)].rank
               ELSE Len(res) <= levels_limit

\* a batch response with more than 10 qualifying rows of A, not in rank
\* order, has given A's 10 prints
C32_Witness ==
    /\ sh_pc = "done"
    /\ sh_path = "prints_batch"
    /\ Len(sh_result["A"]) = prints_limit
    /\ Cardinality(QualifyingIds("A")) > prints_limit
    /\ \E i \in 1..(Len(sh_rows) - 1) : sh_rows[i].rank > sh_rows[i + 1].rank

\* the group fetches a run over the universe makes per category
AllGroupCalls ==
    [c \in Cats |-> IF c = "levels" THEN Len(tickers)
                    ELSE CeilDiv(Len(tickers), GroupSize)]

\* C33: the group fetches are made one at a time and category after
\* category; no task is submitted or running before the last group fetch of
\* the last category has finished; and during the worker-pool stage no
\* category cache changes and no group fetch is made.
C33_CachesBuiltBeforePool ==
    [][/\ (group_calls["prints"] + group_calls["levels"] + group_calls["boxes"]) + 1
            >= group_calls'["prints"] + group_calls'["levels"] + group_calls'["boxes"]
       /\ (group_calls'["levels"] > 0 =>
               group_calls'["prints"] = AllGroupCalls["prints"])
       /\ (group_calls'["boxes"] > 0 =>
               group_calls'["levels"] = AllGroupCalls["levels"])
       /\ ((running' # {} \/ queue' # <<>> \/ direct_fetches' # {}) =>
               group_calls' = AllGroupCalls)
       /\ (p_pc = "pool" =>
               /\ batch_prints_cache' = batch_prints_cache
               /\ batch_levels_cache' = batch_levels_cache
               /\ batch_boxes_cache' = batch_boxes_cache
               /\ group_calls' = group_calls)]_vars

\* two workers run while a third task has already made a direct fetch and
\* written its record
C33_Witness ==
    /\ p_pc = "pool"
    /\ Cardinality(running) = max_workers
    /\ \E t \in Tickers : records[t] # NoRec /\ records[t].via # {}
    /\ group_calls = AllGroupCalls

\* C34: run_full_refresh returns True (exit code 0), and clears the progress
\* file at its end, only if every ticker of the universe it loaded is in
\* processed_tickers at that moment, whatever the progress loaded at start
\* held.
C34_TrueOnlyWhenUniverseProcessed ==
    [][/\ (r_pc = "summary" /\ (r_exit' = 0 \/ progress_file' # progress_file)) =>
             Range(all_tickers) \subseteq processed_tickers
       /\ (r_pc = "refresh" /\ r_exit' = 0) =>
             Range(all_tickers') \subseteq processed_tickers']_vars

\* C35: over a fixed universe, with resume runs repeated, memory checks
\* that pass and batches that exit 0 from some run on, and wherever the
\* earlier runs were interrupted, eventually a run ends having published
\* with every ticker processed and having cleared the progress file.
C35_EventuallyPublishedAndCleared ==
    <>(/\ r_pc = "idle"
       /\ r_exit = 0
       /\ published # NoPublish
       /\ progress_file = AbsentFile
       /\ all_tickers = TickerList)

\* C36: when all the worker threads have finished their fallback fetches,
\* whatever their interleaving, the working directory of the process is the
\* one it was before the pool started.
C36_WorkingDirectoryRestored ==
    (\A w \in DOMAIN cw_pc : cw_pc[w] = "idle" /\ cw_left[w] = 0) =>
        cw_dir = "start_dir"

\* neither set loses an element in this step
SetsKeepElements ==
    /\ processed_tickers \subseteq processed_tickers'
    /\ failed_tickers \subseteq failed_tickers'

\* the step is the return of process_ticker_batch(batch): the batch goes as
\* a whole to processed_tickers (exit 0) or to failed_tickers (any other
\* end) when the subprocess was launched, and nowhere when it was not
BatchGoesToOneSet ==
    (r_pc = "batch" /\ r_pc' = "save") =>
        LET batch == Range(last_batch'.batch) IN
        IF ~last_batch'.launched
        THEN UNCHANGED <<processed_tickers, failed_tickers>>
        ELSE IF last_batch'.outcome = "rc0"
        THEN /\ processed_tickers' = processed_tickers \cup batch
             /\ failed_tickers' = failed_tickers
        ELSE /\ failed_tickers' = failed_tickers \cup batch
             /\ processed_tickers' = processed_tickers

OthersOf(entries, T) == SelectSeq(entries, LAMBDA e : e.symbol \notin T)
EntriesOf(entries, t) == SelectSeq(entries, LAMBDA e : e.symbol = t)

\* the launch l of a script with --incremental took its aggregate file from
\* before to after: whenever the script ran to its end and saved, with the
\* fetch of the tickers of e.ok giving something, the other symbols keep
\* their entries and every t of T has the entry of this run's fetch or none
IncrementalUpdate(before, after, l) ==
    LET T == Range(l.args) IN
    \A e \in ScriptEnvs(T) :
        (/\ e.how = "runs"
         /\ after = populate_script(before, TRUE, l.args, ticker_list_file, e).file)
        => /\ OthersOf(after.entries, T) = OthersOf(before.entries, T)
           /\ \A t \in T :
                 EntriesOf(after.entries, t) =
                     IF t \in e.ok THEN <<[symbol |-> t, gen |-> "new"]>> ELSE <<>>

PollStep == cycles' = cycles + 1 /\ cycle'.kind = "poll"

\* C39: in continuous mode the first iteration never repopulates, an
\* iteration repopulates only when the hash of the ticker list file differs
\* from a known last_hash, last_hash is the current hash at the end of every
\* iteration that found the file, whether the repopulation succeeded or
\* failed, and an iteration that follows another with the file untouched
\* does not repopulate: a failed repopulation is not attempted again until
\* the file changes.
C39_OneAttemptPerHashChange ==
    [][PollStep =>
          /\ (cycles = 0 \/ ~last_hash.known) =>
                 (cycle'.repopulated = "none" /\ launches' = <<>>)
          /\ cycle'.repopulated # "none" =>
                 (last_hash.known /\ last_hash.file # ticker_list_file)
          /\ ticker_list_file.state # "missing" =>
                 last_hash' = [known |-> TRUE, file |-> ticker_list_file]
          /\ cycle.kind = "poll" =>
                 (cycle'.repopulated = "none" /\ launches' = <<>>)]_vars

\* the third iteration has found the file as the second left it: the
\* second saw a change and both its scripts failed, so that the cache still
\* lacks tickers of the list, and the third has started no script
C39_Witness ==
    /\ cycles >= 3
    /\ cycle.kind = "poll"
    /\ ~cycle.changed
    /\ cycle.repopulated = "none"
    /\ launches = <<>>
    /\ cycle.new # {}
    /\ script_faults = 2
    /\ last_hash = [known |-> TRUE, file |-> ticker_list_file]

====
